---- MODULE Spec2Model ----
(***************************************************************************)
(* Badminton score counter: the keeper's match state and serve rotation,   *)
(* the local store and the remote store it persists to, the asynchronous   *)
(* startup load, and the display role of the Expo app with its             *)
(* subscription / one-second poll.                                         *)
(*                                                                         *)
(* Three keeper variants live in the repository and are modelled side by   *)
(* side; the variant is fixed when the app starts:                         *)
(*   "expo"   src/expo-app/App.tsx    (React Native, AsyncStorage)         *)
(*   "web"    src/unnamed/part_002    (web app with Firebase sync)         *)
(*   "legacy" src/src/App.tsx         (older web app, no currentServer)    *)
(*                                                                         *)
(* Texts (match identifiers, scanned payloads) are sequences of one-       *)
(* character strings, so that prefix tests and URL parsing are computed.   *)
(***************************************************************************)
EXTENDS Integers, Sequences, FiniteSets, TLC

\* ---------------------------------------------------------------- bounds
MaxScore == 2      \* highest score a side is driven to
MaxSet == 1        \* highest set count a side is driven to
MaxMint == 1       \* identifiers minted in one run of the app
MaxInflight == 1   \* local-store reads of the display pending at one time
MaxSyncScore == 1  \* highest score of side 1 in the synchronisation model
MaxEvents == 1     \* storage events queued and not yet delivered

\* ---------------------------------------------------------------- values
Variants == {"expo", "web", "legacy"}
NoId == <<>>                 \* null match identifier
Null == [null |-> TRUE]      \* null result of a load
Names == {"", "Ana"}         \* texts typed into a name field

Other(p) == IF p = 1 THEN 2 ELSE 1
Max(a, b) == IF a >= b THEN a ELSE b

EMPTY_STATE ==
  [name1 |-> "", name2 |-> "", score1 |-> 0, score2 |-> 0,
   set1 |-> 0, set2 |-> 0, serverAtStart |-> 1, currentServer |-> 1]

\* legacy ScoreboardState has no currentServer field
LEGACY_EMPTY_STATE ==
  [name1 |-> "", name2 |-> "", score1 |-> 0, score2 |-> 0,
   set1 |-> 0, set2 |-> 0, serverAtStart |-> 1]

InitialState(v) == IF v = "legacy" THEN LEGACY_EMPTY_STATE ELSE EMPTY_STATE

\* mutant: the server shown is the one of 0-0 at every score
getCurrentServerAtStart(s1, s2, sAS) == sAS

\* legacy display: the server alternates on every point from serverAtStart
getCurrentServer(s1, s2, sAS) ==
  IF (s1 + s2) % 2 = 0 THEN sAS ELSE Other(sAS)

\* ---------------------------------------------------------------- texts
MatchPrefix == <<"m", "a", "t", "c", "h", "-">>
Digit(n) == <<"0", "1", "2", "3", "4", "5", "6", "7", "8", "9">>[n + 1]

\* 'match-' + Date.now() + '-' + random suffix; the clock is the mint count
generateMatchId(now) == MatchPrefix \o <<Digit(now)>> \o <<"-", "k">>

\* the identifier a previous run of the app left in the active-match pointer
RememberedId == generateMatchId(0)


StartsWith(s, pre) == Len(s) >= Len(pre) /\ SubSeq(s, 1, Len(pre)) = pre

\* index of the first c in s at or after position from, or 0
RECURSIVE IndexFrom(_, _, _)
IndexFrom(s, c, from) ==
  IF from > Len(s) THEN 0
  ELSE IF s[from] = c THEN from
  ELSE IndexFrom(s, c, from + 1)

\* s cut before the first c (all of s when c does not occur)
Before(s, c) ==
  LET i == IndexFrom(s, c, 1) IN IF i = 0 THEN s ELSE SubSeq(s, 1, i - 1)
\* s after the first c (empty when c does not occur)
After(s, c) ==
  LET i == IndexFrom(s, c, 1) IN IF i = 0 THEN <<>> ELSE SubSeq(s, i + 1, Len(s))

SchemeChars ==
  {"a", "b", "c", "d", "e", "f", "g", "h", "i", "j", "k", "l", "m", "n", "o",
   "p", "q", "r", "s", "t", "u", "v", "w", "x", "y", "z"}

RECURSIVE StripSlashes(_)
StripSlashes(s) ==
  IF s # <<>> /\ s[1] = "/" THEN StripSlashes(Tail(s)) ELSE s

\* new URL(data) succeeds: a scheme of letters, ':', and a host
UrlParses(data) ==
  LET scheme == Before(data, ":")
      rest == StripSlashes(After(data, ":"))
  IN /\ IndexFrom(data, ":", 1) > 1
     /\ \A i \in 1..Len(scheme) : scheme[i] \in SchemeChars
     /\ rest # <<>>
     /\ rest[1] \notin {"?", "#"}

\* the query of a URL: after the first '?', up to a '#'
UrlQuery(data) == Before(After(Before(data, "#"), "?"), "#")

\* the characters that the escapes %2D, %2F and %20 stand for
HexPairs ==
  (<<"2", "D">> :> "-") @@ (<<"2", "F">> :> "/") @@ (<<"2", "0">> :> " ")

\* decoding of a query name or value: '+' is a space, %XX is its character
RECURSIVE PercentDecode(_)
PercentDecode(s) ==
  IF s = <<>> THEN <<>>
  ELSE IF s[1] = "+" THEN <<" ">> \o PercentDecode(Tail(s))
  ELSE IF s[1] = "%" /\ Len(s) >= 3 /\ <<s[2], s[3]>> \in DOMAIN HexPairs
  THEN <<HexPairs[<<s[2], s[3]>>]>> \o PercentDecode(SubSeq(s, 4, Len(s)))
  ELSE <<s[1]>> \o PercentDecode(Tail(s))

\* url.searchParams.get(name): the value of the first name=value pair of the
\* '&'-separated query, or NoId (null) when no pair has that name
RECURSIVE SearchParamsGet(_, _)
SearchParamsGet(query, name) ==
  IF query = <<>> THEN NoId
  ELSE LET pair == Before(query, "&")
       IN IF PercentDecode(Before(pair, "=")) = name
          THEN PercentDecode(After(pair, "="))
          ELSE SearchParamsGet(After(query, "&"), name)

MatchParam == <<"m", "a", "t", "c", "h">>
HttpPrefix == <<"h", "t", "t", "p">>

\* parseMatchIdFromScan; NoId stands for null (and for the empty string, which
\* the caller's if (id) treats alike)
parseMatchIdFromScan(data) ==
  IF StartsWith(data, HttpPrefix)
  THEN IF UrlParses(data) THEN SearchParamsGet(UrlQuery(data), MatchParam)
       ELSE NoId
  ELSE IF StartsWith(data, MatchPrefix) \/ Len(data) > 20 THEN data
  ELSE NoId

\* getMatchIdFromUrl of the web apps: new URL(urlString), then
\* searchParams.get('match'); null when new URL throws
getMatchIdFromUrl(urlString) ==
  IF UrlParses(urlString) THEN SearchParamsGet(UrlQuery(urlString), MatchParam)
  ELSE NoId

\* the decoder of app v
decode(v, data) ==
  IF v = "expo" THEN parseMatchIdFromScan(data) ELSE getMatchIdFromUrl(data)

\* the characters encodeURIComponent escapes, of those a text here can hold
\* (letters, digits and '-' are unreserved and stay as they are)
Escaped ==
  ("/" :> <<"%", "2", "F">>) @@ (" " :> <<"%", "2", "0">>)

RECURSIVE encodeURIComponent(_)
encodeURIComponent(s) ==
  IF s = <<>> THEN <<>>
  ELSE (IF s[1] \in DOMAIN Escaped THEN Escaped[s[1]] ELSE <<s[1]>>)
         \o encodeURIComponent(Tail(s))

\* crypto.randomUUID(): 8-4-4-4-12 hexadecimal digits; the clock stands for
\* the random bits
randomUUID(now) ==
  <<"1", "b", "4", "e", "2", "8", "b", "a", "-", "2", "f", "a", "1", "-",
    "4", "1", "d", "2", "-", "8", "8", "3", "f", "-", "0", "0", "1", "6",
    "d", "3", "c", "c", "a", "4", "2">> \o <<Digit(now)>>

\* generateMatchId of app v.  Expo: 'match-' + Date.now() + '-' + random.
\* Web and legacy: crypto.randomUUID?.() ?? the same 'match-...' text
mint(v, hasRandomUUID, now) ==
  IF v # "expo" /\ hasRandomUUID THEN randomUUID(now)
  ELSE generateMatchId(now)

\* ${origin}${pathname || '/'}?display=1&match=
DisplayUrlPrefix ==
  <<"h", "t", "t", "p", "s", ":", "/", "/", "h", "o", "s", "t", "/", "?",
    "d", "i", "s", "p", "l", "a", "y", "=", "1", "&", "m", "a", "t", "c",
    "h", "=">>

\* what the share-QR effect of app v hands to QRCode.toDataURL: the bare
\* identifier (Expo), the display URL with the escaped identifier (web), the
\* display URL with the identifier as it is (legacy)
encode(v, id) ==
  IF v = "expo" THEN id
  ELSE IF v = "web" THEN DisplayUrlPrefix \o encodeURIComponent(id)
  ELSE DisplayUrlPrefix \o id

\* https://host/?display=1&match=abc123
UrlPayload ==
  <<"h", "t", "t", "p", "s", ":", "/", "/", "h", "o", "s", "t", "/", "?",
  "d", "i", "s", "p", "l", "a", "y", "=", "1", "&", "m", "a", "t", "c",
  "h", "=", "a", "b", "c", "1", "2", "3">>

\* not-a-url-or-token
GarbagePayload ==
  <<"n", "o", "t", "-", "a", "-", "u", "r", "l", "-", "o", "r", "-", "t",
  "o", "k", "e", "n">>

\* abc123
Abc123 == <<"a", "b", "c", "1", "2", "3">>

\* https://host/?display=1
UrlNoMatch ==
  <<"h", "t", "t", "p", "s", ":", "/", "/", "h", "o", "s", "t", "/", "?",
  "d", "i", "s", "p", "l", "a", "y", "=", "1">>

\* https://host/?display=1&match=match%2D1%2Dk
UrlEscapedMatch ==
  <<"h", "t", "t", "p", "s", ":", "/", "/", "h", "o", "s", "t", "/", "?",
  "d", "i", "s", "p", "l", "a", "y", "=", "1", "&", "m", "a", "t", "c",
  "h", "=", "m", "a", "t", "c", "h", "%", "2", "D", "1", "%", "2", "D",
  "k">>

\* http-broken
HttpJunk ==
  <<"h", "t", "t", "p", "-", "b", "r", "o", "k", "e", "n">>

\* this-is-not-a-match-code
LongText ==
  <<"t", "h", "i", "s", "-", "i", "s", "-", "n", "o", "t", "-", "a", "-",
  "m", "a", "t", "c", "h", "-", "c", "o", "d", "e">>

\* texts a scanned QR code can carry
ScanPayloads ==
  {RememberedId, generateMatchId(1), UrlPayload, GarbagePayload}

\* ---------------------------------------------------------------- state
VARIABLES
  variant,        \* which of the three apps runs
  firebase,       \* isFirebaseEnabled(): db !== null, fixed at startup
  state,          \* the keeper's ScoreboardState (name1 .. currentServer)
  matchId,        \* the keeper's match identifier or NoId
  qrModalVisible, \* share-QR modal open
  qrModalMatchId, \* identifier the modal encodes
  pointer,        \* local store: value under MATCH_ID_KEY, or NoId
  records,        \* local store: identifier -> payload stored under its key
  remote,         \* remote store: identifier -> payload under matches/<id>
  pcStart,        \* position of the startup effect
  startPtr,       \* pointer value the pending getItem(MATCH_ID_KEY) read
  startLoad,      \* result of the pending startup loadMatchState
  minted,         \* identifiers minted so far (the clock of generateMatchId)
  role,           \* 'keeper' | 'scan' | 'display'
  matchIdForDisplay, \* identifier the display follows, or NoId
  displayState,   \* the display's ScoreboardState
  subscription,   \* identifier of the active remote listener, or NoId
  pollTimer,      \* identifier the active one-second interval reads, or NoId
  inflight,       \* display loads issued and not yet resolved
  displaySource,  \* identifier displayState was read or received for (history)
  mirrored,       \* the display shows the sides swapped
  last,           \* the operation that ran last (history)
  peer,           \* a second endpoint that displays: another tab of the same
                  \* origin (web apps) or another device (Expo app)
  events,         \* storage events queued for the documents of the origin
  faults,         \* what fails now: the stores "local" and "remote", "camera"
  scanner,        \* the scan screen in detail: camera permission and camera
                  \* session of this device (Expo app), and the state of
                  \* DisplayScanConnect in a tab at ?display=1 (web apps)
  uiError,        \* what an uncaught failure did to the app so far
  probe           \* a call of a pure function: its input, then its result

keeperVars == <<state, matchId, qrModalVisible, qrModalMatchId>>
storeVars == <<pointer, records, remote, events>>
startVars == <<pcStart, startPtr, startLoad>>
displayVars == <<role, matchIdForDisplay, displayState, subscription,
                 pollTimer, inflight, displaySource, mirrored>>
appVars == <<variant, firebase, state, matchId, qrModalVisible, qrModalMatchId,
             pointer, records, remote, pcStart, startPtr, startLoad, minted,
             role, matchIdForDisplay, displayState, subscription, pollTimer,
             inflight, displaySource, mirrored, last, peer, events,
             faults, uiError, scanner>>
faultVars == <<faults, uiError>>
vars == <<appVars, probe>>

Total(s) == s.score1 + s.score2

\* who the app shows as serving now
Serving ==
  IF variant = "legacy"
  THEN getCurrentServer(state.score1, state.score2, state.serverAtStart)
  ELSE state.currentServer

\* ---------------------------------------------------------------- values of JS
\* JavaScript values carry their type, so that a payload of any shape can be
\* stored, parsed and normalized
JNum(n) == [num |-> n]
JStr(s) == [str |-> s]
JBool(b) == [bool |-> b]
JNull == [jnull |-> TRUE]
Undefined == [undef |-> TRUE]
NaN == [nan |-> TRUE]
JObj(f) == [obj |-> f]       \* f maps property names to values
JArr(xs) == [arr |-> xs]

IsNum(v) == DOMAIN v = {"num"}
IsStr(v) == DOMAIN v = {"str"}
IsBool(v) == DOMAIN v = {"bool"}
IsObj(v) == DOMAIN v = {"obj"}
IsArr(v) == DOMAIN v = {"arr"}
IsScalar(v) == IsNum(v) \/ IsStr(v) \/ IsBool(v) \/ v = JNull

EmptyProps == [k \in {} |-> Undefined]

\* the property names of a ScoreboardState, in the order of its object literal
FieldOrder ==
  <<"name1", "name2", "score1", "score2", "set1", "set2", "serverAtStart",
    "currentServer">>
NameFields == {"name1", "name2"}
\* the order in which the properties of a stored object were written
PropertyOrder == FieldOrder \o <<"extra">>

\* the ScoreboardState object built from the state fields
ToJs(s) ==
  JObj([f \in DOMAIN s |-> IF f \in NameFields THEN JStr(s[f]) ELSE JNum(s[f])])

\* data.f : a TypeError on null and undefined, undefined when f is missing
CanRead(data) == data # JNull /\ data # Undefined
GetProp(data, f) ==
  IF IsObj(data) /\ f \in DOMAIN data.obj THEN data.obj[f] ELSE Undefined

\* the numerals that occur in payloads, with the number each denotes
NumeralValue == ("" :> 0) @@ ("0" :> 0) @@ ("2" :> 2) @@ ("3" :> 3)

\* Number(v)
Number(v) ==
  IF IsNum(v) THEN v
  ELSE IF IsStr(v)
  THEN IF v.str \in DOMAIN NumeralValue THEN JNum(NumeralValue[v.str]) ELSE NaN
  ELSE IF IsBool(v) THEN JNum(IF v.bool THEN 1 ELSE 0)
  ELSE IF v = JNull THEN JNum(0)
  ELSE IF IsArr(v)
  THEN IF v.arr = <<>> THEN JNum(0)
       ELSE IF Len(v.arr) = 1 /\ IsNum(v.arr[1]) THEN v.arr[1]
       ELSE NaN
  ELSE NaN

\* ---------------------------------------------------------------- JSON
\* A JSON text is a sequence of tokens: punctuation, and the literals of
\* scalars; a stored text is wrapped as [text |-> tokens].
LB == [p |-> "{"]
RB == [p |-> "}"]
COLON == [p |-> ":"]
COMMA == [p |-> ","]
LSQ == [p |-> "["]
RSQ == [p |-> "]"]

Throws == [throws |-> TRUE]   \* the call threw

\* the members of an object after '{' or ',': "key" : scalar, then ',' or '}'
RECURSIVE ParseMembers(_, _)
ParseMembers(toks, acc) ==
  IF Len(toks) < 4 THEN Throws
  ELSE IF ~IsStr(toks[1]) \/ toks[2] # COLON \/ ~IsScalar(toks[3]) THEN Throws
  ELSE LET acc2 == (toks[1].str :> toks[3]) @@ acc
       IN IF toks[4] = RB
          THEN IF Len(toks) = 4 THEN JObj(acc2) ELSE Throws
          ELSE IF toks[4] = COMMA
          THEN ParseMembers(SubSeq(toks, 5, Len(toks)), acc2)
          ELSE Throws

\* JSON.parse(text)
JSON_parse(toks) ==
  IF Len(toks) = 1 /\ IsScalar(toks[1]) THEN toks[1]
  ELSE IF toks = <<LB, RB>> THEN JObj(EmptyProps)
  ELSE IF toks = <<LSQ, RSQ>> THEN JArr(<<>>)
  ELSE IF Len(toks) > 0 /\ toks[1] = LB THEN ParseMembers(Tail(toks), EmptyProps)
  ELSE Throws

\* "key":value of the properties named in order that obj has, ',' between
RECURSIVE StringifyMembers(_, _, _)
StringifyMembers(obj, order, first) ==
  IF order = <<>> THEN <<>>
  ELSE LET f == Head(order)
           v == GetProp(obj, f)
       IN IF v = Undefined THEN StringifyMembers(obj, Tail(order), first)
          ELSE (IF first THEN <<>> ELSE <<COMMA>>)
               \o <<JStr(f), COLON, IF v = NaN THEN JNull ELSE v>>
               \o StringifyMembers(obj, Tail(order), FALSE)

\* JSON.stringify(v) of a scalar or of a flat object
JSON_stringify(v) ==
  IF IsObj(v) THEN <<LB>> \o StringifyMembers(v, PropertyOrder, TRUE) \o <<RB>>
  ELSE IF v = NaN THEN <<JNull>>
  ELSE <<v>>

\* ---------------------------------------------------------------- stores
Absent == [absent |-> TRUE]   \* getItem result for a key never written
Text(toks) == [text |-> toks] \* a text held in the local store

getItem(store, id) == IF id \in DOMAIN store THEN store[id] ELSE Absent
setItem(store, id, payload) == (id :> payload) @@ store

\* the text saveMatchState stores: JSON.stringify(state)
saveText(s) == Text(JSON_stringify(ToJs(s)))

\* Number(data.f) || 0
NumberOr0(data, f) ==
  LET n == Number(GetProp(data, f))
  IN IF n = NaN \/ n = JNum(0) THEN JNum(0) ELSE n
\* data.f ?? ''
TextOrEmpty(data, f) ==
  LET v == GetProp(data, f)
  IN IF v = Undefined \/ v = JNull THEN JStr("") ELSE v
\* typeof data.f === 'string' ? data.f : ''
StringOrEmpty(data, f) ==
  LET v == GetProp(data, f) IN IF IsStr(v) THEN v ELSE JStr("")
\* mutant: the server field is read as player 1 whatever was stored
ServerAlways1(data, f) == JNum(1)

\* data.f === 2 ? 2 : 1
ServerOr1(data, f) == IF GetProp(data, f) = JNum(2) THEN JNum(2) ELSE JNum(1)

\* the object literal loadMatchState returns, Expo app
NormalizeExpo(data) ==
  JObj([name1 |-> TextOrEmpty(data, "name1"),
        name2 |-> TextOrEmpty(data, "name2"),
        score1 |-> NumberOr0(data, "score1"),
        score2 |-> NumberOr0(data, "score2"),
        set1 |-> NumberOr0(data, "set1"),
        set2 |-> NumberOr0(data, "set2"),
        serverAtStart |-> ServerOr1(data, "serverAtStart"),
        currentServer |-> ServerOr1(data, "currentServer")])

\* web app: currentServer falls back to serverAtStart when it is no number
NormalizeWeb(data) ==
  JObj([name1 |-> TextOrEmpty(data, "name1"),
        name2 |-> TextOrEmpty(data, "name2"),
        score1 |-> NumberOr0(data, "score1"),
        score2 |-> NumberOr0(data, "score2"),
        set1 |-> NumberOr0(data, "set1"),
        set2 |-> NumberOr0(data, "set2"),
        serverAtStart |-> ServerOr1(data, "serverAtStart"),
        currentServer |->
          IF IsNum(GetProp(data, "currentServer"))
          THEN ServerOr1(data, "currentServer")
          ELSE ServerOr1(data, "serverAtStart")])

\* legacy web app: no currentServer
NormalizeLegacy(data) ==
  JObj([name1 |-> TextOrEmpty(data, "name1"),
        name2 |-> TextOrEmpty(data, "name2"),
        score1 |-> NumberOr0(data, "score1"),
        score2 |-> NumberOr0(data, "score2"),
        set1 |-> NumberOr0(data, "set1"),
        set2 |-> NumberOr0(data, "set2"),
        serverAtStart |-> ServerOr1(data, "serverAtStart")])

\* loadMatchState of app v, applied to the value getItem gave for the key:
\* if (!raw) return null; JSON.parse; the object literal; catch: return null
loadMatchState(v, raw) ==
  IF raw = Absent \/ raw.text = <<>> THEN Null
  ELSE LET data == JSON_parse(raw.text)
       IN IF data = Throws \/ ~CanRead(data) THEN Null
          ELSE IF v = "expo" THEN NormalizeExpo(data)
          ELSE IF v = "web" THEN NormalizeWeb(data)
          ELSE NormalizeLegacy(data)

\* snapshot.val(): null where nothing is stored
snapshotVal(stored) == IF stored = Absent THEN JNull ELSE stored

\* parseState of firebase-sync.ts, applied to snapshot.val()
parseState(data) ==
  IF ~(IsObj(data) \/ IsArr(data)) THEN Null
  ELSE JObj([name1 |-> StringOrEmpty(data, "name1"),
             name2 |-> StringOrEmpty(data, "name2"),
             score1 |-> NumberOr0(data, "score1"),
             score2 |-> NumberOr0(data, "score2"),
             set1 |-> NumberOr0(data, "set1"),
             set2 |-> NumberOr0(data, "set2"),
             serverAtStart |-> ServerOr1(data, "serverAtStart"),
             currentServer |-> ServerOr1(data, "currentServer")])

\* the fields the React setters receive from a loaded or received state
PlainValue(v) == IF IsNum(v) THEN v.num ELSE IF IsStr(v) THEN v.str ELSE v
Plain(res) ==
  IF res = Null THEN Null
  ELSE [f \in DOMAIN res.obj |-> PlainValue(res.obj[f])]

\* loadMatchState of the Expo app, as the keeper and the display use it
LoadExpo(raw) == Plain(loadMatchState("expo", raw))

\* ---------------------------------------------------------------- keeper
ScoreF(p) == IF p = 1 THEN "score1" ELSE "score2"
SetF(p) == IF p = 1 THEN "set1" ELSE "set2"
NameF(p) == IF p = 1 THEN "name1" ELSE "name2"

\* mutant: "+" forgets setCurrentServer(p)
ScoreUpKeepsServer(v, s, p) == [s EXCEPT ![ScoreF(p)] = @ + 1]

\* "+" of a score: setScoreP(s + 1); setCurrentServer(p)
ScoreUp(v, s, p) ==
  IF v = "legacy" THEN [s EXCEPT ![ScoreF(p)] = @ + 1]
  ELSE [s EXCEPT ![ScoreF(p)] = @ + 1, !.currentServer = p]

\* mutant: "-" lowers the score and leaves the server alone
ScoreDownKeepsServer(v, s, p) == [s EXCEPT ![ScoreF(p)] = Max(0, @ - 1)]

\* mutant: "-" without Math.max(0, ...) and without the disabled button
ScoreDownUnclamped(v, s, p) ==
  IF v = "legacy" THEN [s EXCEPT ![ScoreF(p)] = @ - 1]
  ELSE [s EXCEPT ![ScoreF(p)] = @ - 1, !.currentServer = Other(p)]

\* mutant: "-" without the (scoreP > 0) test and without the disabled button
ScoreDownUnguarded(v, s, p) ==
  IF v = "legacy" THEN [s EXCEPT ![ScoreF(p)] = Max(0, @ - 1)]
  ELSE [s EXCEPT ![ScoreF(p)] = Max(0, @ - 1), !.currentServer = Other(p)]

\* "-" of a score.  Expo: setScoreP(max(0, s - 1)); if (scoreP > 0)
\* setCurrentServer(other).  Web and legacy: the button is disabled while the
\* score is <= 0, otherwise onScoreChange(-1) runs.
ScoreDown(v, s, p) ==
  IF v = "expo"
  THEN [s EXCEPT ![ScoreF(p)] = Max(0, @ - 1),
                 !.currentServer = IF s[ScoreF(p)] > 0 THEN Other(p) ELSE @]
  ELSE IF s[ScoreF(p)] <= 0 THEN s
  ELSE IF v = "web"
  THEN [s EXCEPT ![ScoreF(p)] = Max(0, @ - 1), !.currentServer = Other(p)]
  ELSE [s EXCEPT ![ScoreF(p)] = Max(0, @ - 1)]

\* mutant: "+" of a set also clears the scores, as for a finished set
SetUpClearsScores(v, s, p) ==
  [s EXCEPT ![SetF(p)] = @ + 1, !.score1 = 0, !.score2 = 0]
\* "+" of a set: setSetP((s) => s + 1)
SetUp(v, s, p) == [s EXCEPT ![SetF(p)] = @ + 1]

\* "-" of a set: setSetP(max(0, s - 1)); disabled at 0 in web and legacy
SetDown(v, s, p) ==
  IF v # "expo" /\ s[SetF(p)] <= 0 THEN s
  ELSE [s EXCEPT ![SetF(p)] = Max(0, @ - 1)]

\* mutant: the server choice sets serverAtStart at any score
ChooseServerUnlocked(v, s, p) ==
  IF v = "legacy" THEN [s EXCEPT !.serverAtStart = p]
  ELSE [s EXCEPT !.currentServer = p, !.serverAtStart = p]

\* server choice buttons
ChooseServer(v, s, p) ==
  IF v = "legacy" THEN [s EXCEPT !.serverAtStart = p]
  ELSE [s EXCEPT !.currentServer = p,
                 !.serverAtStart = IF Total(s) = 0 THEN p ELSE @]

\* mutant: the scores change sides with the players instead of being cleared
SwapKeepsScores(v, s) ==
  IF v = "legacy"
  THEN [s EXCEPT !.name1 = s.name2, !.name2 = s.name1,
                 !.score1 = s.score2, !.score2 = s.score1,
                 !.set1 = s.set2, !.set2 = s.set1,
                 !.serverAtStart = Other(@)]
  ELSE [s EXCEPT !.name1 = s.name2, !.name2 = s.name1,
                 !.score1 = s.score2, !.score2 = s.score1,
                 !.set1 = s.set2, !.set2 = s.set1,
                 !.serverAtStart = Other(@), !.currentServer = Other(@)]

\* handleSwap ("Byt sida")
Swap(v, s) ==
  IF v = "legacy"
  THEN [s EXCEPT !.name1 = s.name2, !.name2 = s.name1,
                 !.score1 = s.score2, !.score2 = s.score1,
                 !.set1 = s.set2, !.set2 = s.set1,
                 !.serverAtStart = Other(@)]
  ELSE [s EXCEPT !.name1 = s.name2, !.name2 = s.name1,
                 !.score1 = 0, !.score2 = 0,
                 !.set1 = s.set2, !.set2 = s.set1,
                 !.serverAtStart = Other(@), !.currentServer = Other(@)]

\* the fields "Starta ny match" leaves behind
Reset(v, s) == IF v = "legacy" THEN s ELSE EMPTY_STATE

\* mutant: the publish is dropped
writeMatchStateDropped(rem, id, s) == rem

\* writeMatchState: if (!db) return; set(ref(db, matches/<id>), state)
\* .catch(() => {}): a write that fails leaves the remote store as it was
writeMatchState(rem, id, s) ==
  IF firebase /\ "remote" \notin faults THEN setItem(rem, id, ToJs(s)) ELSE rem

\* loadMatchState(id) of app v on the local store: a getItem that throws or
\* rejects is caught inside loadMatchState, which then returns null
LoadRecord(v, id) ==
  IF "local" \in faults THEN Null
  ELSE loadMatchState(v, getItem(records, id))

\* localStorage.setItem of a web app queues a storage event for the other
\* documents of the origin when the stored value changes; only the events of
\* match keys are kept (the listener drops every other key)
StorageEvent(id, text) ==
  IF variant # "expo" /\ peer.page # "closed" /\ getItem(records, id) # text
  THEN /\ Len(events) < MaxEvents
       /\ events' = Append(events, [key |-> id, newValue |-> text])
  ELSE UNCHANGED events

\* mutant: the publish is awaited without .catch, so that a remote write
\* that fails surfaces and ends the effect before the local write
PersistEffectUncaughtPublish(ran, id, s) ==
  IF ran /\ id # NoId
  THEN IF firebase /\ "remote" \in faults
       THEN /\ uiError' = "unhandled rejection"
            /\ UNCHANGED storeVars
       ELSE /\ pointer' = id
            /\ records' = setItem(records, id, saveText(s))
            /\ StorageEvent(id, saveText(s))
            /\ remote' = IF variant = "legacy" THEN remote
                         ELSE writeMatchState(remote, id, s)
            /\ UNCHANGED uiError
  ELSE UNCHANGED <<storeVars, uiError>>

\* the persist effect, run after a render in which one of its dependencies
\* (matchId and the eight fields) changed.
\* While the local store fails: the two AsyncStorage.setItem promises of the
\* Expo app reject and nothing handles them, the effect goes on to publish;
\* localStorage.setItem of the web apps throws inside the effect, which ends
\* the effect there, and React unmounts the tree on the uncaught error.
PersistEffect(ran, id, s) ==
  IF ran /\ id # NoId
  THEN IF "local" \notin faults
       THEN /\ pointer' = id
            /\ records' = setItem(records, id, saveText(s))
            /\ StorageEvent(id, saveText(s))
            /\ remote' = IF variant = "legacy" THEN remote
                         ELSE writeMatchState(remote, id, s)
            /\ UNCHANGED uiError
       ELSE IF variant = "expo"
       THEN /\ remote' = writeMatchState(remote, id, s)
            /\ uiError' = "unhandled rejection"
            /\ UNCHANGED <<pointer, records, events>>
       ELSE /\ uiError' = "unmounted"
            /\ UNCHANGED storeVars
  ELSE UNCHANGED <<storeVars, uiError>>

\* a keeper handler that sets the fields to s2 and leaves matchId alone
Edit(op, p, s2) ==
  /\ pcStart # "mount"
  /\ uiError # "unmounted"
  /\ role = "keeper"
  /\ state' = s2
  /\ last' = [op |-> op, p |-> p]
  /\ PersistEffect(s2 # state, matchId, s2)
  /\ UNCHANGED <<scanner, faults, probe, peer, variant, firebase, matchId, qrModalVisible, qrModalMatchId,
                 startVars, minted, displayVars>>

ScoreInc(p) ==
  /\ state[ScoreF(p)] < MaxScore
  /\ Edit("ScoreInc", p, ScoreUp(variant, state, p))

ScoreDec(p) == Edit("ScoreDec", p, ScoreDown(variant, state, p))

SetInc(p) ==
  /\ state[SetF(p)] < MaxSet
  /\ Edit("SetInc", p, SetUp(variant, state, p))

SetDec(p) == Edit("SetDec", p, SetDown(variant, state, p))

NameChange(p, n) == Edit("NameChange", p, [state EXCEPT ![NameF(p)] = n])

ServerChoice(p) == Edit("ServerChoice", p, ChooseServer(variant, state, p))

handleSwap == Edit("handleSwap", 0, Swap(variant, state))

\* "Starta ny match": forget the identifier, reset the fields, remove the
\* active-match pointer; the persist effect then finds matchId null.  A
\* removeItem that fails: the web apps catch it, the Expo app leaves the
\* rejected promise unhandled
StartNewMatch ==
  /\ pcStart # "mount"
  /\ uiError # "unmounted"
  /\ role = "keeper"
  /\ matchId' = NoId
  /\ state' = Reset(variant, state)
  /\ qrModalMatchId' = NoId
  /\ qrModalVisible' = IF variant = "legacy" THEN qrModalVisible ELSE FALSE
  /\ IF "local" \notin faults
     THEN pointer' = NoId /\ UNCHANGED uiError
     ELSE /\ UNCHANGED pointer
          /\ uiError' = IF variant = "expo" THEN "unhandled rejection"
                        ELSE uiError
  /\ last' = [op |-> "StartNewMatch", p |-> 0]
  /\ UNCHANGED <<scanner, faults, probe, peer, variant, firebase, records, remote, events,
                 startVars, minted, displayVars>>

\* "Visa QR": const id = matchId || generateMatchId(); if (!matchId)
\* setMatchId(id); setQrModalMatchId(id); setQrModalVisible(true)
openQrModal ==
  /\ pcStart # "mount"
  /\ uiError # "unmounted"
  /\ role = "keeper"
  /\ matchId = NoId => minted < MaxMint
  /\ LET id == IF matchId # NoId THEN matchId ELSE generateMatchId(minted + 1)
     IN /\ matchId' = id
        /\ minted' = IF matchId # NoId THEN minted ELSE minted + 1
        /\ qrModalMatchId' = IF variant = "legacy" THEN qrModalMatchId ELSE id
        /\ qrModalVisible' = TRUE
        /\ PersistEffect(id # matchId, id, state)
  /\ last' = [op |-> "openQrModal", p |-> 0]
  /\ UNCHANGED <<scanner, faults, probe, peer, variant, firebase, state, startVars, displayVars>>

\* closing the modal (overlay press or "Stäng")
closeQrModal ==
  /\ qrModalVisible
  /\ uiError # "unmounted"
  /\ role = "keeper"
  /\ qrModalVisible' = FALSE
  /\ qrModalMatchId' = NoId
  /\ last' = [op |-> "closeQrModal", p |-> 0]
  /\ UNCHANGED <<scanner, faultVars, probe, peer, variant, firebase, state, matchId, storeVars, startVars,
                 minted, displayVars>>

\* ---------------------------------------------------------------- startup
\* effects of the first render.  Expo: matchId is null, so the persist effect
\* returns, and the startup effect issues getItem(MATCH_ID_KEY).  Web and
\* legacy: matchId was read synchronously from the pointer and the persist
\* effect runs with the initial fields.  A getItem(MATCH_ID_KEY) of the Expo
\* app that fails rejects the promise: the .then callback never runs and no
\* .catch handles the rejection.
Mount ==
  /\ pcStart = "mount"
  /\ IF variant = "expo"
     THEN IF "local" \notin faults
          THEN /\ pcStart' = "getPointer"
               /\ startPtr' = pointer
               /\ UNCHANGED <<storeVars, uiError>>
          ELSE /\ pcStart' = "done"
               /\ startPtr' = NoId
               /\ uiError' = "unhandled rejection"
               /\ UNCHANGED storeVars
     ELSE /\ pcStart' = "done"
          /\ startPtr' = NoId
          /\ PersistEffect(TRUE, matchId, state)
  /\ last' = [op |-> "Mount", p |-> 0]
  /\ UNCHANGED <<scanner, faults, probe, peer, variant, firebase, keeperVars, startLoad, minted,
                 displayVars>>

\* .then(async (v) => { if (!v) return; setMatchId(v);
\*                      const s = await loadMatchState(v); ... })
\* The read of the record is issued here, before the render that setMatchId
\* causes runs the persist effect.
StartupPointer ==
  /\ pcStart = "getPointer"
  /\ startPtr' = NoId
  /\ IF startPtr = NoId
     THEN /\ pcStart' = "done"
          /\ UNCHANGED <<matchId, startLoad, storeVars, uiError>>
     ELSE /\ pcStart' = "loading"
          /\ matchId' = startPtr
          /\ startLoad' = Plain(LoadRecord("expo", startPtr))
          /\ PersistEffect(startPtr # matchId, startPtr, state)
  /\ last' = [op |-> "StartupPointer", p |-> 0]
  /\ UNCHANGED <<scanner, faults, probe, peer, variant, firebase, state, qrModalVisible, qrModalMatchId,
                 minted, displayVars>>

\* if (s) { setName1(s.name1); ... setCurrentServer(s.currentServer) }
StartupLoaded ==
  /\ pcStart = "loading"
  /\ pcStart' = "done"
  /\ startLoad' = Null
  /\ UNCHANGED startPtr
  /\ IF startLoad # Null
     THEN /\ state' = startLoad
          /\ PersistEffect(startLoad # state, matchId, startLoad)
     ELSE UNCHANGED <<state, storeVars, uiError>>
  /\ last' = [op |-> "StartupLoaded", p |-> 0]
  /\ UNCHANGED <<scanner, faults, probe, peer, variant, firebase, matchId, qrModalVisible, qrModalMatchId,
                 minted, displayVars>>

\* ---------------------------------------------------------------- initial
EmptyStore == [id \in {} |-> Absent]

\* a record a previous run of the keeper left under RememberedId
PreviousState(v) ==
  IF v = "legacy"
  THEN [LEGACY_EMPTY_STATE EXCEPT !.name1 = "Ana", !.score1 = 1]
  ELSE [EMPTY_STATE EXCEPT !.name1 = "Ana", !.score2 = 1,
                           !.currentServer = 2]

NoProbe == [op |-> "none"]

\* no scan screen open, no camera session; the camera permission was granted
\* in an earlier run.  camera: a camera session of this endpoint is active;
\* scanning, error, ref (scannerRef.current is set): the state of
\* DisplayScanConnect; start: the start() of its scanner; leaked: the start()
\* of a scanner the component let go of.
NoScanner ==
  [permission |-> "granted", camera |-> FALSE, page |-> "closed",
   scanning |-> FALSE, error |-> FALSE, ref |-> FALSE, start |-> "none",
   leaked |-> "none"]

\* no second endpoint
ClosedPeer ==
  [page |-> "closed", id |-> NoId, state |-> JNull, listener |-> NoId,
   subscription |-> NoId, mirrored |-> FALSE]

InitApp ==
  /\ variant \in Variants
  /\ firebase \in (IF variant = "legacy" THEN {FALSE} ELSE BOOLEAN)
  /\ \E remembered \in BOOLEAN :
       /\ pointer = IF remembered THEN RememberedId ELSE NoId
       /\ records = IF remembered
                    THEN setItem(EmptyStore, RememberedId,
                                 saveText(PreviousState(variant)))
                    ELSE EmptyStore
       /\ remote = IF remembered /\ firebase
                   THEN setItem(EmptyStore, RememberedId,
                                ToJs(PreviousState(variant)))
                   ELSE EmptyStore
  /\ state = InitialState(variant)
  /\ matchId = IF variant = "expo" THEN NoId ELSE pointer
  /\ qrModalVisible = FALSE
  /\ qrModalMatchId = NoId
  /\ pcStart = "mount"
  /\ startPtr = NoId
  /\ startLoad = Null
  /\ minted = 0
  /\ role = "keeper"
  /\ matchIdForDisplay = NoId
  /\ displayState = EMPTY_STATE
  /\ subscription = NoId
  /\ pollTimer = NoId
  /\ inflight = {}
  /\ displaySource = NoId
  /\ mirrored = FALSE
  /\ last = [op |-> "Init", p |-> 0]
  /\ peer = ClosedPeer
  /\ events = <<>>
  /\ faults = {}
  /\ uiError = "none"
  /\ scanner = NoScanner

Init == InitApp /\ probe = NoProbe

Sides == {1, 2}

KeeperEdit ==
  \/ \E p \in Sides : ScoreInc(p)
  \/ \E p \in Sides : ScoreDec(p)
  \/ \E p \in Sides : SetInc(p)
  \/ \E p \in Sides : SetDec(p)
  \/ \E p \in Sides : ServerChoice(p)
  \/ \E p \in Sides, n \in Names : NameChange(p, n)
  \/ handleSwap
  \/ StartNewMatch

Startup == Mount \/ StartupPointer \/ StartupLoaded

\* a first start: nothing remembered, so the stores stay empty while the
\* keeper has no identifier
InitFresh == Init /\ pointer = NoId

\* the serve machine: every keeper edit, on a first start
NextServe == Mount \/ StartupPointer \/ KeeperEdit

SpecServe == InitFresh /\ [][NextServe]_vars

\* ---------------------------------------------------------------- display
\* a loadMatchState(id) call of the display: the read is issued now, the
\* promise resolves later
IssueLoad(id) == [id |-> id, s |-> Plain(LoadRecord("expo", id))]

\* the display reads the local store only while few of its reads are pending
LoadBudget == Cardinality(inflight) < MaxInflight

\* <CameraView> is rendered while permission?.granted; mounted, it starts a
\* camera session unless the camera cannot be started
CameraStarts(permission) == permission = "granted" /\ "camera" \notin faults

\* "Skanna QR": setRole('scan'), and the scan screen is rendered
OpenScanner ==
  /\ variant = "expo"
  /\ pcStart # "mount"
  /\ role = "keeper"
  /\ role' = "scan"
  /\ scanner' = [scanner EXCEPT !.camera = CameraStarts(scanner.permission)]
  /\ last' = [op |-> "OpenScanner", p |-> 0]
  /\ UNCHANGED <<faultVars, mirrored, probe, peer, variant, firebase, keeperVars, storeVars, startVars, minted,
                 matchIdForDisplay, displayState, subscription, pollTimer,
                 inflight, displaySource>>

\* "Avbryt" / "Tillbaka" on the scan screen: setRole('keeper')
CancelScan ==
  /\ role = "scan"
  /\ role' = "keeper"
  /\ scanner' = [scanner EXCEPT !.camera = FALSE]
  /\ last' = [op |-> "CancelScan", p |-> 0]
  /\ UNCHANGED <<faultVars, mirrored, probe, peer, variant, firebase, keeperVars, storeVars, startVars, minted,
                 matchIdForDisplay, displayState, subscription, pollTimer,
                 inflight, displaySource>>

\* mutant: the scanned text is taken as the identifier without decoding it
handleBarCodeScannedUndecoded(data) ==
  /\ role = "scan"
  /\ scanner.camera
  /\ firebase \/ LoadBudget
  /\ matchIdForDisplay' = data
  /\ role' = "display"
  /\ scanner' = [scanner EXCEPT !.camera = FALSE]
  /\ IF firebase
     THEN /\ subscription' = data
          /\ UNCHANGED <<pollTimer, inflight>>
     ELSE /\ pollTimer' = data
          /\ inflight' = inflight \cup {IssueLoad(data)}
          /\ UNCHANGED subscription
  /\ last' = [op |-> "handleBarCodeScanned", p |-> 0]
  /\ UNCHANGED <<faultVars, mirrored, probe, peer, variant, firebase, keeperVars, storeVars,
                 startVars, minted, displayState, displaySource>>

\* handleBarCodeScanned, and the two display effects that the change of role
\* and matchIdForDisplay triggers: subscribe, or start the interval and issue
\* the initial load
handleBarCodeScanned(data) ==
  /\ role = "scan"
  /\ scanner.camera
  /\ firebase \/ LoadBudget
  /\ LET id == parseMatchIdFromScan(data)
     IN IF id # NoId
        THEN /\ matchIdForDisplay' = id
             /\ role' = "display"
             /\ scanner' = [scanner EXCEPT !.camera = FALSE]
             /\ IF firebase
                THEN /\ subscription' = id
                     /\ UNCHANGED <<pollTimer, inflight>>
                ELSE /\ pollTimer' = id
                     /\ inflight' = inflight \cup {IssueLoad(id)}
                     /\ UNCHANGED subscription
        ELSE UNCHANGED <<matchIdForDisplay, role, subscription, pollTimer,
                         inflight, scanner>>
  /\ last' = [op |-> "handleBarCodeScanned", p |-> 0]
  /\ UNCHANGED <<faultVars, mirrored, probe, peer, variant, firebase, keeperVars, storeVars, startVars, minted,
                 displayState, displaySource>>

\* the interval callback: const s = await loadMatchState(matchIdForDisplay)
PollTick ==
  /\ pollTimer # NoId
  /\ LoadBudget
  /\ inflight' = inflight \cup {IssueLoad(pollTimer)}
  /\ last' = [op |-> "PollTick", p |-> 0]
  /\ UNCHANGED <<scanner, faultVars, mirrored, probe, peer, variant, firebase, keeperVars, storeVars, startVars, minted,
                 role, matchIdForDisplay, displayState, subscription,
                 pollTimer, displaySource>>

\* mutant: the resolved load is also copied into the keeper's fields
LoadResolveAdopts ==
  /\ \E l \in inflight :
       /\ inflight' = inflight \ {l}
       /\ IF l.s # Null
          THEN displayState' = l.s /\ displaySource' = l.id /\ state' = l.s
          ELSE UNCHANGED <<displayState, displaySource, state>>
  /\ last' = [op |-> "LoadResolve", p |-> 0]
  /\ UNCHANGED <<scanner, faultVars, mirrored, probe, peer, variant, firebase, matchId,
                 qrModalVisible, qrModalMatchId, storeVars, startVars, minted,
                 role, matchIdForDisplay, subscription, pollTimer>>

\* a pending load resolves: if (s) setDisplayState(s)
LoadResolve ==
  /\ \E l \in inflight :
       /\ inflight' = inflight \ {l}
       /\ IF l.s # Null
          THEN displayState' = l.s /\ displaySource' = l.id
          ELSE UNCHANGED <<displayState, displaySource>>
  /\ last' = [op |-> "LoadResolve", p |-> 0]
  /\ UNCHANGED <<scanner, faultVars, mirrored, probe, peer, variant, firebase, keeperVars, storeVars, startVars, minted,
                 role, matchIdForDisplay, subscription, pollTimer>>

\* the onValue callback of the active listener: const state =
\* parseState(snapshot.val()); if (state) onUpdate(state)
RemoteDeliver ==
  /\ subscription # NoId
  /\ LET s == Plain(parseState(snapshotVal(getItem(remote, subscription))))
     IN IF s # Null
        THEN displayState' = s /\ displaySource' = subscription
        ELSE UNCHANGED <<displayState, displaySource>>
  /\ last' = [op |-> "RemoteDeliver", p |-> 0]
  /\ UNCHANGED <<scanner, faultVars, mirrored, probe, peer, variant, firebase, keeperVars, storeVars, startVars, minted,
                 role, matchIdForDisplay, subscription, pollTimer, inflight>>

\* mutant: going back without the effect cleanup (no unsubscribe, no
\* clearInterval)
BackToKeeperNoCleanup ==
  /\ role = "display"
  /\ role' = "keeper"
  /\ matchIdForDisplay' = NoId
  /\ last' = [op |-> "BackToKeeper", p |-> 0]
  /\ UNCHANGED <<scanner, faultVars, mirrored, probe, peer, variant, firebase, keeperVars, storeVars,
                 startVars, minted, displayState, subscription, pollTimer,
                 inflight, displaySource>>

\* "Tillbaka till poängräknare": setRole('keeper'); setMatchIdForDisplay(null);
\* the effect cleanup calls unsubscribe / clearInterval
BackToKeeper ==
  /\ role = "display"
  /\ role' = "keeper"
  /\ matchIdForDisplay' = NoId
  /\ subscription' = NoId
  /\ pollTimer' = NoId
  /\ last' = [op |-> "BackToKeeper", p |-> 0]
  /\ UNCHANGED <<scanner, faultVars, mirrored, probe, peer, variant, firebase, keeperVars, storeVars, startVars, minted,
                 displayState, inflight, displaySource>>

\* the mirror button of the display screen: setMirrored((m) => !m)
ToggleMirror ==
  /\ role = "display"
  /\ mirrored' = ~mirrored
  /\ last' = [op |-> "ToggleMirror", p |-> 0]
  /\ UNCHANGED <<scanner, faultVars, probe, peer, variant, firebase, keeperVars, storeVars,
                 startVars, minted, role, matchIdForDisplay, displayState,
                 subscription, pollTimer, inflight, displaySource>>

Display ==
  \/ OpenScanner
  \/ CancelScan
  \/ \E data \in ScanPayloads : handleBarCodeScanned(data)
  \/ PollTick
  \/ LoadResolve
  \/ RemoteDeliver
  \/ BackToKeeper

\* the keeper edits that drive the two synchronisation models: points of
\* side 1
SyncEdit ==
  \/ (state.score1 < MaxSyncScore /\ ScoreInc(1))
  \/ ScoreDec(1)

\* the life of a match identifier: startup with or without a remembered
\* match, sharing, scoring, starting a new match
NextMatch ==
  Startup \/ SyncEdit \/ StartNewMatch \/ openQrModal \/ closeQrModal

SpecMatch == Init /\ [][NextMatch]_vars

\* the Expo app as keeper and as display of a match on the same device or
\* on the remote store
InitExpo == Init /\ variant = "expo"

NextDisplay == Startup \/ SyncEdit \/ Display

SpecDisplay == InitExpo /\ [][NextDisplay]_vars

\* ---------------------------------------------------------------- peer
\* The second endpoint.  Web apps: a tab of the same origin opened at
\* ?display=1&match=<id>, rendering ScoreboardDisplay, or at ?display=1,
\* rendering DisplayScanConnect.  Expo app: another device that scans the
\* code and follows the match over the remote store.
PeerIds == {RememberedId, generateMatchId(1)}

\* first render of ScoreboardDisplay:
\* useState(() => loadMatchState(matchId) ?? EMPTY_STATE); no effect has run
FirstRender(id) ==
  LET s == LoadRecord(variant, id)
  IN [page |-> "render", id |-> id,
      state |-> IF s = Null THEN ToJs(InitialState(variant)) ELSE s,
      listener |-> NoId, subscription |-> NoId, mirrored |-> FALSE]

\* window.location.href = `${base}?display=1&match=${encodeURIComponent(id)}`,
\* then App's new URLSearchParams(window.location.search).get('match')
Navigate(id) ==
  SearchParamsGet(UrlQuery(DisplayUrlPrefix \o encodeURIComponent(id)),
                  MatchParam)

PeerOpen(id) ==
  /\ variant # "expo"
  /\ peer.page = "closed"
  /\ peer' = FirstRender(id)
  /\ last' = [op |-> "PeerOpen", p |-> 0]
  /\ UNCHANGED <<scanner, faultVars, probe, variant, firebase, keeperVars, storeVars, startVars,
                 minted, displayVars>>

\* the effects of ScoreboardDisplay: window.addEventListener('storage', ...)
\* and, in the web app with Firebase, subscribeMatchState(matchId, ...)
PeerEffects ==
  /\ peer.page = "render"
  /\ peer' = [peer EXCEPT !.page = "display", !.listener = peer.id,
                          !.subscription =
                            IF variant = "web" /\ firebase THEN peer.id
                            ELSE NoId]
  /\ last' = [op |-> "PeerEffects", p |-> 0]
  /\ UNCHANGED <<scanner, faultVars, probe, variant, firebase, keeperVars, storeVars, startVars,
                 minted, displayVars>>

\* a queued storage event reaches the document.  onStorage, if attached:
\* if (e.key === storageKey && e.newValue) try { setState(JSON.parse(...)) }
StorageDeliver ==
  /\ events # <<>>
  /\ events' = Tail(events)
  /\ LET e == Head(events)
         v == JSON_parse(e.newValue.text)
     IN IF /\ peer.listener # NoId
           /\ e.key = peer.listener
           /\ e.newValue.text # <<>>
           /\ v # Throws
        THEN peer' = [peer EXCEPT !.state = v]
        ELSE UNCHANGED peer
  /\ last' = [op |-> "StorageDeliver", p |-> 0]
  /\ UNCHANGED <<scanner, faultVars, probe, variant, firebase, keeperVars, pointer, records,
                 remote, startVars, minted, displayVars>>

\* "Skanna QR" on the other device (Expo, which then follows the match over
\* the remote store), or the scanner of DisplayScanConnect in another tab
PeerOpenScanner ==
  /\ variant = "expo" => firebase
  /\ peer.page = "closed"
  /\ peer' = [peer EXCEPT !.page = "scan",
                          !.state = IF variant = "expo" THEN ToJs(EMPTY_STATE)
                                    ELSE JNull]
  /\ last' = [op |-> "PeerOpenScanner", p |-> 0]
  /\ UNCHANGED <<scanner, faultVars, probe, variant, firebase, keeperVars, storeVars, startVars,
                 minted, displayVars>>

\* mutant: a payload that is no match code ends the scan
PeerScanStopsOnReject(data) ==
  /\ peer.page = "scan"
  /\ LET id == decode(variant, data)
     IN IF id = NoId THEN peer' = ClosedPeer
        ELSE IF variant = "expo"
        THEN peer' = [peer EXCEPT !.page = "display", !.id = id,
                                  !.subscription = id]
        ELSE peer' = FirstRender(Navigate(id))
  /\ last' = [op |-> "PeerScan", p |-> 0]
  /\ UNCHANGED <<scanner, faultVars, probe, variant, firebase, keeperVars, storeVars, startVars,
                 minted, displayVars>>

\* the scanner callback on the other endpoint.  Expo: handleBarCodeScanned
\* and its subscribe effect.  Web apps: if (matchId) scanner.stop(), then the
\* page moves to the display URL of the identifier and renders
\* ScoreboardDisplay; a text without identifier is ignored
PeerScan(data) ==
  /\ peer.page = "scan"
  /\ LET id == decode(variant, data)
     IN IF id = NoId THEN UNCHANGED peer
        ELSE IF variant = "expo"
        THEN peer' = [peer EXCEPT !.page = "display", !.id = id,
                                  !.subscription = id]
        ELSE peer' = FirstRender(Navigate(id))
  /\ last' = [op |-> "PeerScan", p |-> 0]
  /\ UNCHANGED <<scanner, faultVars, probe, variant, firebase, keeperVars, storeVars, startVars,
                 minted, displayVars>>

\* the onValue callback of the peer's listener:
\* const state = parseState(snapshot.val()); if (state) onUpdate(state)
PeerRemoteDeliver ==
  /\ peer.subscription # NoId
  /\ LET s == parseState(snapshotVal(getItem(remote, peer.subscription)))
     IN IF s # Null THEN peer' = [peer EXCEPT !.state = s]
        ELSE UNCHANGED peer
  /\ last' = [op |-> "PeerRemoteDeliver", p |-> 0]
  /\ UNCHANGED <<scanner, faultVars, probe, variant, firebase, keeperVars, storeVars, startVars,
                 minted, displayVars>>

\* the mirror button of the other endpoint's display
PeerToggleMirror ==
  /\ peer.page = "display"
  /\ peer' = [peer EXCEPT !.mirrored = ~@]
  /\ last' = [op |-> "PeerToggleMirror", p |-> 0]
  /\ UNCHANGED <<scanner, faultVars, probe, variant, firebase, keeperVars, storeVars, startVars,
                 minted, displayVars>>

\* the tab is closed or leaves the page, the other device goes back or
\* cancels: the cleanups remove the listener and unsubscribe (the Expo
\* device keeps its mirrored flag, a closed tab does not)
PeerClose ==
  /\ peer.page # "closed"
  /\ peer' = [ClosedPeer EXCEPT !.mirrored = variant = "expo" /\ peer.mirrored]
  /\ events' = <<>>
  /\ last' = [op |-> "PeerClose", p |-> 0]
  /\ UNCHANGED <<scanner, faultVars, probe, variant, firebase, keeperVars, pointer, records,
                 remote, startVars, minted, displayVars>>

\* texts another writer of the origin's localStorage leaves under a match key
ForeignTexts ==
  {Text(<<JNum(5)>>), Text(<<LB>>),
   Text(JSON_stringify(JObj([score1 |-> JNum(3)])))}

\* localStorage.setItem(key, text) by another writer of the same origin
ForeignWrite(id, text) ==
  /\ variant # "expo"
  /\ peer.page # "closed"
  /\ getItem(records, id) # text
  /\ records' = setItem(records, id, text)
  /\ StorageEvent(id, text)
  /\ last' = [op |-> "ForeignWrite", p |-> 0]
  /\ UNCHANGED <<scanner, faultVars, probe, peer, variant, firebase, keeperVars, pointer, remote,
                 startVars, minted, displayVars>>

Peer ==
  \/ \E id \in PeerIds : PeerOpen(id)
  \/ PeerEffects
  \/ StorageDeliver
  \/ PeerOpenScanner
  \/ \E data \in ScanPayloads : PeerScan(data)
  \/ PeerRemoteDeliver
  \/ PeerClose

\* a keeper and the displays that follow its match: the device's own display
\* role (Expo), a display tab of the same origin (web apps), a display on
\* another device (Expo over the remote store); the keeper's points go up
NextPaired ==
  \/ Startup
  \/ (state.score1 < MaxSyncScore /\ ScoreInc(1))
  \/ openQrModal
  \/ Display
  \/ Peer

SpecPaired == Init /\ [][NextPaired]_vars

\* the local-only transport: no remote store, the keeper's points only go
\* up (so that its writes end), the timer, the pending reads, the effects
\* and the storage events keep being served
InitLocal == Init /\ ~firebase

NextLocal ==
  \/ Startup
  \/ (state.score1 < MaxSyncScore /\ ScoreInc(1))
  \/ openQrModal
  \/ OpenScanner
  \/ CancelScan
  \/ \E data \in ScanPayloads : handleBarCodeScanned(data)
  \/ PollTick
  \/ LoadResolve
  \/ BackToKeeper
  \/ \E id \in PeerIds : PeerOpen(id)
  \/ PeerEffects
  \/ StorageDeliver
  \/ PeerClose

SpecLocalLive ==
  /\ InitLocal
  /\ [][NextLocal]_vars
  /\ WF_vars(PollTick)
  /\ WF_vars(LoadResolve)
  /\ WF_vars(PeerEffects)
  /\ WF_vars(StorageDeliver)

\* the same, with another writer storing texts under the match keys
NextUntrusted ==
  NextPaired \/ \E id \in PeerIds, text \in ForeignTexts : ForeignWrite(id, text)

SpecUntrusted == Init /\ [][NextUntrusted]_vars

\* The app process is ended and started again: every useState is back at its
\* initial value (the web apps read matchId from the pointer), timers,
\* listeners and pending promises are gone; the stores keep what they hold.
\* The identifier the device followed as a display is noted in last.
Restart ==
  /\ pcStart # "mount"
  /\ state' = InitialState(variant)
  /\ matchId' = IF variant = "expo" THEN NoId ELSE pointer
  /\ qrModalVisible' = FALSE
  /\ qrModalMatchId' = NoId
  /\ pcStart' = "mount"
  /\ startPtr' = NoId
  /\ startLoad' = Null
  /\ role' = "keeper"
  /\ matchIdForDisplay' = NoId
  /\ displayState' = EMPTY_STATE
  /\ subscription' = NoId
  /\ pollTimer' = NoId
  /\ inflight' = {}
  /\ displaySource' = NoId
  /\ mirrored' = FALSE
  /\ uiError' = "none"
  /\ scanner' = [scanner EXCEPT !.camera = FALSE]
  /\ last' = [op |-> "Restart", p |-> 0, followed |-> matchIdForDisplay]
  /\ UNCHANGED <<faults, probe, peer, variant, firebase, storeVars, minted>>

\* a device that scans, displays and is restarted
NextRestart == Startup \/ SyncEdit \/ Display \/ Restart

\* The runtime keeps running the startup effect and its callbacks: the effect
\* runs after the first render, and a promise that AsyncStorage has settled
\* gets its callback run.  StartupPointer is enabled exactly when pcStart is
\* "getPointer" and every step of it leaves that position, so weak fairness
\* of StartupPointer is the third conjunct below, written without ENABLED.
SpecRestartLive ==
  /\ InitExpo
  /\ [][NextRestart]_vars
  /\ WF_vars(Mount)
  /\ WF_vars(StartupLoaded)
  /\ []<>(pcStart # "getPointer")

\* a store starts or stops failing (storage unavailable, quota exceeded,
\* network or permission error)
Fault(f) ==
  /\ f = "remote" => firebase
  /\ faults' = IF f \in faults THEN faults \ {f} ELSE faults \cup {f}
  /\ last' = [op |-> "Fault", p |-> 0]
  /\ UNCHANGED <<scanner, uiError, probe, peer, variant, firebase, keeperVars,
                 storeVars, startVars, minted, displayVars>>

\* the keeper while its stores fail and recover
NextFaulty ==
  \/ Startup
  \/ (state.score1 < MaxSyncScore /\ ScoreInc(1))
  \/ openQrModal
  \/ StartNewMatch
  \/ \E f \in {"local", "remote"} : Fault(f)

SpecFaulty == Init /\ [][NextFaulty]_vars

\* the keeper while the remote store fails and recovers
NextPublish ==
  \/ Startup
  \/ (state.score1 < MaxSyncScore /\ ScoreInc(1))
  \/ openQrModal
  \/ StartNewMatch
  \/ Fault("remote")

SpecPublish == Init /\ [][NextPublish]_vars

\* the displays with all their buttons, beside a keeper that resumes a match
\* and scores
NextReadOnly ==
  \/ Startup
  \/ (state.score1 < MaxSyncScore /\ ScoreInc(1))
  \/ Display
  \/ ToggleMirror
  \/ Peer
  \/ PeerToggleMirror

SpecReadOnly == Init /\ [][NextReadOnly]_vars

\* ---------------------------------------------------------------- payloads
\* values a property of a stored or received object can hold; Undefined
\* stands for a property that is missing
ScoreValues ==
  {Undefined, JNum(3), JNum(0 - 3), JStr("3"), JStr("abc"), JNull, JBool(TRUE)}
NameValues == {Undefined, JStr("Ana"), JNum(5), JNull}
ServerAtStartValues == {Undefined, JNum(1), JNum(2), JNum(3), JStr("2")}
CurrentServerValues == {Undefined, JNum(2), JStr("2")}
ExtraValues == {Undefined, JNum(9)}

\* the object with the properties that are not Undefined
MakeObject(n1, s1, sAS, cS, ex) ==
  LET all == [name1 |-> n1, score1 |-> s1, serverAtStart |-> sAS,
              currentServer |-> cS, extra |-> ex]
      present == {f \in DOMAIN all : all[f] # Undefined}
  IN JObj([f \in present |-> all[f]])

\* decoded objects with missing, malformed and extra properties
PayloadObjects ==
  {MakeObject(n1, s1, sAS, cS, ex) :
     n1 \in NameValues, s1 \in ScoreValues, sAS \in ServerAtStartValues,
     cS \in CurrentServerValues, ex \in ExtraValues}

\* values that are no object: what JSON.parse or snapshot.val() can also give
NonObjects == {JNull, JNum(5), JStr("abc"), JBool(FALSE), JArr(<<>>)}

\* texts JSON.parse rejects: a cut-off object, a stray word, a missing value
UnparsableTexts ==
  {Text(<<LB>>), Text(<<[p |-> "x"]>>),
   Text(<<LB, JStr("score1"), COLON, RB>>),
   Text(<<LB, JStr("score1"), COLON, JNum(1), COMMA, RB>>)}

\* what can lie under a match key: nothing, the empty text, garbage, and the
\* texts of the values above
StoredValues ==
  {Absent, Text(<<>>)} \cup UnparsableTexts
    \cup {Text(JSON_stringify(v)) : v \in NonObjects \cup PayloadObjects}

\* what snapshot.val() can give
ReceivedValues == NonObjects \cup PayloadObjects

\* well-formed states of app v
WellFormedStates(v) ==
  IF v = "legacy"
  THEN [name1 : Names, name2 : Names, score1 : 0..MaxScore,
        score2 : 0..MaxScore, set1 : 0..MaxSet, set2 : 0..MaxSet,
        serverAtStart : {1, 2}]
  ELSE [name1 : Names, name2 : Names, score1 : 0..MaxScore,
        score2 : 0..MaxScore, set1 : 0..MaxSet, set2 : 0..MaxSet,
        serverAtStart : {1, 2}, currentServer : {1, 2}]

\* identifiers the keeper of app v can mint
MintedIds(v) ==
  {mint(v, u, now) : u \in BOOLEAN, now \in 0..MaxMint}

\* texts handed to a decoder
DecodeInputs ==
  ScanPayloads \cup {UrlNoMatch, UrlEscapedMatch, HttpJunk, LongText}

\* ---------------------------------------------------------------- keys
\* const MATCH_ID_KEY = 'badminton-current-match-id' (MATCH_ID_STORAGE_KEY in
\* the web apps)
MATCH_ID_KEY ==
  <<"b", "a", "d", "m", "i", "n", "t", "o", "n", "-", "c", "u", "r", "r",
  "e", "n", "t", "-", "m", "a", "t", "c", "h", "-", "i", "d">>

\* mutant: the key does not depend on the identifier
getMatchKeyConstant(id) ==
  <<"b", "a", "d", "m", "i", "n", "t", "o", "n", "-", "m", "a", "t", "c",
    "h">>

\* const getMatchKey = (id) => `badminton-match-${id}`
getMatchKey(id) ==
  <<"b", "a", "d", "m", "i", "n", "t", "o", "n", "-", "m", "a", "t", "c",
    "h", "-">> \o id

\* function getMatchStorageKey(matchId) { return `badminton-match-${matchId}` }
getMatchStorageKey(id) ==
  <<"b", "a", "d", "m", "i", "n", "t", "o", "n", "-", "m", "a", "t", "c",
    "h", "-">> \o id

\* the key saveMatchState of app v writes
StorageKey(v, id) ==
  IF v = "expo" THEN getMatchKey(id) ELSE getMatchStorageKey(id)

\* saveMatchState(matchId, state) on a store that maps keys to texts
saveMatchState(v, store, id, s) ==
  setItem(store, StorageKey(v, id), saveText(s))

\* an identifier that reads like the tail of the pointer key
PointerLikeId ==
  <<"c", "u", "r", "r", "e", "n", "t", "-", "m", "a", "t", "c", "h", "-",
    "i", "d">>

\* identifiers to save under: minted ones, the one of the spec's scenario,
\* the empty text and the tail of the pointer key
KeyIds ==
  UNION {MintedIds(v) : v \in Variants} \cup {Abc123, <<>>, PointerLikeId}

\* ---------------------------------------------------------------- calls
\* One call of a function of the program on one input: probe holds the input,
\* the action applies the function and puts the result next to it.
ProbeInputs ==
  {[op |-> "input", f |-> "loadMatchState", raw |-> r] : r \in StoredValues}
    \cup {[op |-> "input", f |-> "parseState", data |-> d] :
            d \in ReceivedValues}
    \cup {[op |-> "input", f |-> "saveLoad", s |-> s] :
            s \in WellFormedStates("expo") \cup WellFormedStates("legacy")}
    \cup {[op |-> "input", f |-> "publishReceive", s |-> s] :
            s \in WellFormedStates("expo")}
    \cup {[op |-> "input", f |-> "decode", scanned |-> d] : d \in DecodeInputs}
    \cup UNION {{[op |-> "input", f |-> "pairing", by |-> e, token |-> t] :
                   t \in MintedIds(e)} : e \in Variants}
    \cup {[op |-> "input", f |-> "normalize", data |-> d] :
            d \in ReceivedValues}
    \cup {[op |-> "input", f |-> "save", id |-> i, other |-> o,
           previous |-> b] : i \in KeyIds, o \in KeyIds, b \in BOOLEAN}

IsInput(f) == probe.op = "input" /\ probe.f = f

\* loadMatchState(id) of the running app, with probe.raw under the key of id
CallLoad ==
  /\ IsInput("loadMatchState")
  /\ probe' = [op |-> "loadMatchState", raw |-> probe.raw,
               out |-> loadMatchState(variant,
                         getItem(IF probe.raw = Absent THEN EmptyStore
                                 ELSE setItem(EmptyStore, RememberedId,
                                              probe.raw),
                                 RememberedId))]
  /\ UNCHANGED appVars

\* the onValue callback's parseState(snapshot.val())
CallParseState ==
  /\ IsInput("parseState")
  /\ variant = "expo"
  /\ probe' = [op |-> "parseState", data |-> probe.data,
               out |-> parseState(probe.data)]
  /\ UNCHANGED appVars

\* saveMatchState(id, s), then loadMatchState(id)
CallSaveLoad ==
  /\ IsInput("saveLoad")
  /\ probe.s \in WellFormedStates(variant)
  /\ probe' = [op |-> "saveLoad", s |-> probe.s,
               out |-> loadMatchState(variant,
                         getItem(setItem(EmptyStore, RememberedId,
                                         saveText(probe.s)), RememberedId))]
  /\ UNCHANGED appVars

\* writeMatchState(id, s) with the remote store enabled, then the listener's
\* parseState(snapshot.val())
CallPublishReceive ==
  /\ IsInput("publishReceive")
  /\ variant = "expo"
  /\ firebase
  /\ probe' = [op |-> "publishReceive", s |-> probe.s,
               out |-> parseState(snapshotVal(
                         getItem(writeMatchState(EmptyStore, RememberedId,
                                                 probe.s), RememberedId)))]
  /\ UNCHANGED appVars

\* the scanner callback's decoder, applied to the scanned text
CallDecode ==
  /\ IsInput("decode")
  /\ probe' = [op |-> "decode", scanned |-> probe.scanned,
               id |-> decode(variant, probe.scanned)]
  /\ UNCHANGED appVars

\* the keeper app probe.by shows the code of an identifier it minted, the
\* scanner of the running app decodes it
CallPairing ==
  /\ IsInput("pairing")
  /\ probe' = [op |-> "pairing", by |-> probe.by, token |-> probe.token,
               payload |-> encode(probe.by, probe.token),
               id |-> decode(variant, encode(probe.by, probe.token))]
  /\ UNCHANGED appVars

\* saveMatchState(id, s) on an empty store, and once more on the result; the
\* key each app derives from id, and the key of another identifier
CallSave ==
  /\ IsInput("save")
  /\ LET s == IF probe.previous THEN PreviousState(variant)
               ELSE InitialState(variant)
         once == saveMatchState(variant, EmptyStore, probe.id, s)
     IN probe' = [op |-> "save", id |-> probe.id, other |-> probe.other,
                  key |-> [v \in Variants |-> StorageKey(v, probe.id)],
                  otherKey |-> StorageKey(variant, probe.other),
                  once |-> once,
                  twice |-> saveMatchState(variant, once, probe.id, s)]
  /\ UNCHANGED appVars

\* one decoded payload handed to the three routines: stored as text and
\* loaded by the Expo and the web loadMatchState, and received as
\* snapshot.val() by parseState
CallNormalize ==
  /\ IsInput("normalize")
  /\ LET raw == Text(JSON_stringify(probe.data))
     IN probe' = [op |-> "normalize", data |-> probe.data,
                  expo |-> loadMatchState("expo", raw),
                  web |-> loadMatchState("web", raw),
                  received |-> parseState(probe.data)]
  /\ UNCHANGED appVars

InitCalls == InitApp /\ pointer = NoId /\ probe \in ProbeInputs

NextCalls ==
  \/ CallLoad
  \/ CallParseState
  \/ CallSaveLoad
  \/ CallPublishReceive
  \/ CallDecode
  \/ CallPairing
  \/ CallSave
  \/ CallNormalize

SpecCalls == InitCalls /\ [][NextCalls]_vars

\* ================================================================ claims
HasCurrentServer == variant \in {"expo", "web"}

\* C1: whenever score1 + score2 = 0, the player shown as serving is
\* serverAtStart (currentServer = serverAtStart in the Expo and web apps).
C1_ServeInvariant ==
  Total(state) = 0 => Serving = state.serverAtStart

\* C2: in the apps that keep currentServer, a score increment for side X
\* leaves currentServer = X whatever the state before was, raises X's score
\* by one, and a second increment for the same side leaves currentServer as
\* it was.
C2_ScoringSetsServer ==
  [][(last'.op = "ScoreInc" /\ HasCurrentServer) =>
       /\ state'.currentServer = last'.p
       /\ state'[ScoreF(last'.p)] = state[ScoreF(last'.p)] + 1
       /\ (last = last' => state'.currentServer = state.currentServer)]_vars

C2_Witness ==
  /\ variant = "expo"
  /\ last = [op |-> "ScoreInc", p |-> 2]
  /\ state.serverAtStart = 1 /\ state.score1 = 1 /\ state.score2 = 2
  /\ state.currentServer = 2

\* The servers that the handlers give along: serverAtStart := 2 at 0-0,
\* +1 side 1, +1 side 1, -1 side 1.
C3_ScenarioServers ==
  LET s0 == ChooseServer(variant, EMPTY_STATE, 2)
      s1 == ScoreUp(variant, s0, 1)
      s2 == ScoreUp(variant, s1, 1)
      s3 == ScoreDown(variant, s2, 1)
  IN <<s0.currentServer, s1.currentServer, s2.currentServer,
       s3.currentServer, s3.score1>>

\* C3: in the apps that keep currentServer, a score decrement for side X
\* taken while X's score is above 0 lowers that score by exactly 1 and leaves
\* currentServer on the other side; the scenario above passes through
\* currentServer 2, 1, 1 and ends with currentServer 2 at 1-0.
C3_UndoGivesOtherSide ==
  /\ [][(last'.op = "ScoreDec" /\ HasCurrentServer
           /\ state[ScoreF(last'.p)] > 0) =>
          /\ state'[ScoreF(last'.p)] = state[ScoreF(last'.p)] - 1
          /\ state'.currentServer = Other(last'.p)]_vars
  /\ [](HasCurrentServer => C3_ScenarioServers = <<2, 1, 1, 2, 1>>)

\* the end of: serverAtStart := 2 at 0-0, +1 side 1, +1 side 1, -1 side 1
C3_Witness ==
  /\ HasCurrentServer
  /\ last = [op |-> "ScoreDec", p |-> 1]
  /\ state.serverAtStart = 2 /\ state.score1 = 1 /\ state.score2 = 0
  /\ state.currentServer = 2

\* C4: within one match, a keeper action taken while score1 + score2 > 0
\* leaves serverAtStart unchanged.
C4_ServerAtStartLocked ==
  [][(Total(state) > 0 /\ last'.op # "StartNewMatch") =>
       state'.serverAtStart = state.serverAtStart]_vars

\* C5: in the apps that keep currentServer, choosing server P sets
\* currentServer = P at any score, sets serverAtStart = P when the score is
\* 0-0, and changes no other field, nor serverAtStart when the score is
\* above 0-0.
C5_ManualOverride ==
  [][(last'.op = "ServerChoice" /\ HasCurrentServer) =>
       /\ state'.currentServer = last'.p
       /\ Total(state) = 0 => state'.serverAtStart = last'.p
       /\ Total(state) > 0 => state'.serverAtStart = state.serverAtStart
       /\ \A f \in DOMAIN state \ {"currentServer", "serverAtStart"} :
             state'[f] = state[f]
       /\ UNCHANGED <<matchId, role, storeVars>>]_vars

C5_Witness ==
  /\ HasCurrentServer
  /\ last = [op |-> "ServerChoice", p |-> 2]
  /\ Total(state) > 0
  /\ state.currentServer = 2 /\ state.serverAtStart = 1

\* C6: score1, score2, set1 and set2 are never negative.
C6_NonNegative ==
  /\ state.score1 >= 0 /\ state.score2 >= 0
  /\ state.set1 >= 0 /\ state.set2 >= 0

C6_Witness ==
  /\ last.op = "SetDec" /\ state[SetF(last.p)] = 0
  /\ state.score1 = 0 /\ state.score2 = 0

\* C7: a decrement of a score or a set whose value is 0 leaves the whole
\* match state, the identifier and the stores as they were.
C7_DecrementAtZero ==
  [][(last'.op \in {"ScoreDec", "SetDec"}
        /\ (IF last'.op = "ScoreDec" THEN state[ScoreF(last'.p)]
                                      ELSE state[SetF(last'.p)]) = 0) =>
       /\ state' = state
       /\ UNCHANGED <<matchId, role, storeVars>>]_vars

\* Expo: a decrement of side 1 at a score above 0 would have left
\* currentServer = 2
C7_Witness ==
  /\ variant = "expo"
  /\ last = [op |-> "ScoreDec", p |-> 1]
  /\ state.score1 = 0 /\ state.currentServer = 1 /\ state.serverAtStart = 2

StartupOps == {"Mount", "StartupPointer", "StartupLoaded"}

\* C8: when the app starts with the pointer naming RememberedId and a record
\* stored for it, the local and the remote record keep that stored state
\* throughout startup, and when startup has completed the keeper is bound to
\* RememberedId and its state is the stored state.
C8_KeeperResume ==
  RememberedId \in DOMAIN records =>
    /\ (pcStart # "done" \/ last.op \in StartupOps) =>
         /\ records[RememberedId] = saveText(PreviousState(variant))
         /\ firebase =>
              getItem(remote, RememberedId) = ToJs(PreviousState(variant))
    /\ (pcStart = "done" /\ last.op \in StartupOps) =>
         /\ matchId = RememberedId
         /\ state = PreviousState(variant)

\* C9: a display paired with a match holds the all-default state until a
\* state for that match arrives, and never a state that was read or received
\* for another identifier.
C9_DisplayShowsOwnMatch ==
  role = "display" =>
    /\ displaySource \in {NoId, matchIdForDisplay}
    /\ displaySource = NoId => displayState = EMPTY_STATE

\* C10: the display's state changes only while the device is a display, and
\* only to a state read or received for the identifier it follows; after
\* unsubscribe / clearInterval nothing modifies it.
C10_NoUpdateAfterTeardown ==
  [][(displayState' # displayState \/ displaySource' # displaySource) =>
       /\ role = "display"
       /\ displaySource' = matchIdForDisplay]_vars

\* ---------------------------------------------------------------- C14 - C19
\* the decoded value of a stored text, Throws when JSON.parse rejects it
Decoded(raw) == JSON_parse(raw.text)

\* the payload of the finished call, decoded
ProbePayload ==
  IF probe.op = "loadMatchState" THEN Decoded(probe.raw) ELSE probe.data

\* a load of an entry that exists, or a received message, has been normalized
Normalized ==
  \/ probe.op = "loadMatchState" /\ probe.raw # Absent
  \/ probe.op = "parseState"

\* the all-default MatchState of the running app
DefaultState == ToJs(InitialState(variant))

\* names are text, scores and sets non-negative numbers, servers 1 or 2
WellFormedState(o) ==
  /\ IsObj(o)
  /\ DOMAIN o.obj = DOMAIN InitialState(variant)
  /\ \A f \in NameFields : IsStr(o.obj[f])
  /\ \A f \in {"score1", "score2", "set1", "set2"} :
       IsNum(o.obj[f]) /\ o.obj[f].num >= 0
  /\ \A f \in DOMAIN o.obj \cap {"serverAtStart", "currentServer"} :
       o.obj[f] \in {JNum(1), JNum(2)}

\* C14: reading a payload never raises an error; a garbage payload
\* (unparsable text, JSON null, a value that is no object) reads as the
\* all-default MatchState and any other payload as a well-formed MatchState.
C14_NormalizationTotal ==
  Normalized =>
    /\ probe.out # Throws
    /\ IF IsObj(ProbePayload) THEN WellFormedState(probe.out)
       ELSE probe.out = DefaultState

ScoreFields == {"score1", "score2", "set1", "set2"}

\* C15: for a decoded payload object, each score and set of the result is the
\* payload's number, or 0 when that is missing or not numeric; each server
\* field is 2 only when the payload holds exactly 2 and otherwise 1; each name
\* is the payload's text, or empty when missing; there is no other field.
C15_Coercion ==
  (Normalized /\ HasCurrentServer /\ IsObj(ProbePayload)) =>
    /\ DOMAIN probe.out.obj = DOMAIN EMPTY_STATE
    /\ \A f \in ScoreFields :
         LET v == GetProp(ProbePayload, f)
             r == probe.out.obj[f]
         IN IF IsNum(v) THEN r = v
            ELSE IF IsStr(v) /\ v.str \in DOMAIN NumeralValue
            THEN r \in {JNum(NumeralValue[v.str]), JNum(0)}
            ELSE r = JNum(0)
    /\ \A f \in {"serverAtStart", "currentServer"} :
         probe.out.obj[f] =
           IF GetProp(ProbePayload, f) = JNum(2) THEN JNum(2) ELSE JNum(1)
    /\ \A f \in NameFields :
         LET v == GetProp(ProbePayload, f)
         IN /\ IsStr(v) => probe.out.obj[f] = v
            /\ v = Undefined => probe.out.obj[f] = JStr("")

\* C16: every MatchState that normalization returns has scores and sets that
\* are non-negative numbers and names that are text.
C16_TrustedFields ==
  (Normalized /\ probe.out # Null) =>
    /\ \A f \in ScoreFields :
         IsNum(probe.out.obj[f]) /\ probe.out.obj[f].num >= 0
    /\ \A f \in NameFields : IsStr(probe.out.obj[f])

\* C17: a well-formed state that is saved and loaded back, or published and
\* parsed from the received snapshot, comes back equal in every field.
C17_RoundTrip ==
  probe.op \in {"saveLoad", "publishReceive"} => probe.out = ToJs(probe.s)

C17_Witness ==
  /\ probe.op = "saveLoad"
  /\ variant = "expo"
  /\ probe.s.name1 = "Ana" /\ probe.s.name2 = ""
  /\ probe.s.score1 = 2 /\ probe.s.set2 = 1
  /\ probe.s.serverAtStart = 1 /\ probe.s.currentServer = 2
  /\ probe.out.obj.currentServer = JNum(2)

\* C19: loadMatchState returns null exactly when nothing is stored under the
\* key; for an entry that was written, whatever it holds, it returns a state.
C19_AbsentIffNeverWritten ==
  probe.op = "loadMatchState" => (probe.out = Null <=> probe.raw = Absent)

\* ---------------------------------------------------------------- C20
\* the identifier each URL with a `match` parameter carries
UrlIds == (UrlPayload :> Abc123) @@ (UrlEscapedMatch :> generateMatchId(1))
BareIds == {RememberedId, generateMatchId(1)}

\* C20: each decoder returns the identifier carried by a URL with a non-empty
\* `match` parameter, returns a bare identifier unchanged, and returns invalid
\* for any other text.
C20_DecodeBothShapes ==
  probe.op = "decode" =>
    probe.id = IF probe.scanned \in DOMAIN UrlIds THEN UrlIds[probe.scanned]
               ELSE IF probe.scanned \in BareIds THEN probe.scanned
               ELSE NoId

\* ---------------------------------------------------------------- C18
\* o is what the normalization of app v returns for it: an object that the
\* loader's coercions leave as it is
IsNormalized(v, o) ==
  /\ IsObj(o)
  /\ o = (IF v = "expo" THEN NormalizeExpo(o)
          ELSE IF v = "web" THEN NormalizeWeb(o)
          ELSE NormalizeLegacy(o))

\* C18: the state a display holds is always a normalized MatchState, whether
\* it came from a read of the local store, a storage event or a remote
\* message.
C18_DisplayStateNormalized ==
  /\ role = "display" => IsNormalized("expo", ToJs(displayState))
  /\ peer.page \in {"render", "display"} => IsNormalized(variant, peer.state)

\* ---------------------------------------------------------------- C11
\* the update sources of the second endpoint that are active
PeerSources ==
  (IF peer.subscription # NoId THEN {"subscription"} ELSE {})
    \cup (IF peer.listener # NoId THEN {"storage listener"} ELSE {})

\* the device itself: nothing is active outside the display role, and in the
\* display role exactly the source the configuration selects, keyed by the
\* match
OwnSourcesReleased ==
  /\ role # "display" => subscription = NoId /\ pollTimer = NoId
  /\ role = "display" =>
       IF firebase
       THEN subscription = matchIdForDisplay /\ pollTimer = NoId
       ELSE pollTimer = matchIdForDisplay /\ subscription = NoId

\* C11 as stated: outside the display role no update source is active; a
\* display of match M has exactly one, the remote subscription if the remote
\* store is enabled and otherwise the one-second poll, keyed by M.
C11_OneUpdateSource ==
  /\ OwnSourcesReleased
  /\ peer.page \in {"closed", "scan"} => PeerSources = {}
  /\ peer.page = "display" =>
       /\ PeerSources = IF firebase THEN {"subscription"} ELSE {"poll"}
       /\ peer.subscription = peer.id

\* C11 amended: the Expo app as stated; a web display that has run its
\* effects has a storage listener keyed by M and, with the remote store
\* enabled, also a remote subscription keyed by M, and never a poll; a web
\* display that is closed has neither.
C11_SourcesReleased ==
  /\ OwnSourcesReleased
  /\ peer.page # "display" => PeerSources = {}
  /\ (peer.page = "display" /\ variant = "expo") =>
       PeerSources = {"subscription"} /\ peer.subscription = peer.id
  /\ (peer.page = "display" /\ variant # "expo") =>
       /\ peer.listener = peer.id
       /\ peer.subscription = IF variant = "web" /\ firebase THEN peer.id
                              ELSE NoId

\* a second pairing after a first one and a way back: the poll follows the
\* new match
C11_Witness ==
  /\ role = "display"
  /\ last.op = "handleBarCodeScanned"
  /\ displaySource \notin {NoId, matchIdForDisplay}
  /\ pollTimer = matchIdForDisplay

\* ---------------------------------------------------------------- C12
\* the Expo display follows a match that has a stored record and does not
\* hold the stored state
OwnBehind ==
  /\ variant = "expo"
  /\ role = "display"
  /\ LoadExpo(getItem(records, matchIdForDisplay)) \notin {Null, displayState}

\* the web display follows a match whose record holds a state it does not
\* hold
PeerBehind ==
  /\ variant # "expo"
  /\ peer.page \in {"render", "display"}
  /\ getItem(records, peer.id) # Absent
  /\ peer.state # JSON_parse(getItem(records, peer.id).text)

\* C12: without the remote store, once the keeper has stopped writing, a
\* display that follows match M in the same storage domain and does not hold
\* the stored state of M comes to hold it (or leaves the display).
C12_LocalDisplayCatchesUp ==
  /\ OwnBehind ~> ~OwnBehind
  /\ PeerBehind ~> ~PeerBehind

\* ---------------------------------------------------------------- C13
\* what the keeper holds is what the remote store holds for its match
KeeperPublished ==
  (firebase /\ matchId # NoId /\ pcStart # "mount") =>
    getItem(remote, matchId) = ToJs(state)

\* C13: every change of the keeper under a match identifier publishes its
\* whole state, and a delivery replaces the display's whole state by the
\* published one: after a delivery a display that follows the keeper's match
\* holds the keeper's state.
C13_LastWriteWins ==
  /\ []KeeperPublished
  /\ [][(last'.op = "PeerRemoteDeliver" /\ peer.subscription \in DOMAIN remote)
          => /\ peer'.state = remote[peer.subscription]
             /\ (peer.subscription = matchId /\ pcStart # "mount") =>
                  peer'.state = ToJs(state)]_vars

\* the other device held the state before the keeper's point and now holds
\* the state after it
C13_Witness ==
  /\ variant = "expo"
  /\ last.op = "PeerRemoteDeliver"
  /\ peer.subscription = matchId
  /\ state.score1 = 1
  /\ peer.state = ToJs(state)

\* C21: a code shown by a keeper for an identifier it minted decodes to that
\* identifier, whichever app encodes it (bare identifier, display URL) and
\* whichever app's scanner decodes it.
C21_PairingRoundTrip ==
  probe.op = "pairing" => probe.id = probe.token

\* C22: a scanned payload that the decoder rejects changes nothing: the
\* device stays in scan role and every variable keeps its value (own device
\* of the Expo app, and the second endpoint of every app); a payload with an
\* identifier, also right after a rejected one, moves the scanner to the
\* display of that identifier.
C22_RejectedScanIgnored ==
  [][\A data \in ScanPayloads :
       /\ (handleBarCodeScanned(data) /\ parseMatchIdFromScan(data) = NoId) =>
            /\ role' = "scan"
            /\ UNCHANGED <<variant, firebase, keeperVars, storeVars, startVars,
                           minted, displayVars, peer>>
       /\ (handleBarCodeScanned(data) /\ parseMatchIdFromScan(data) # NoId) =>
            /\ role' = "display"
            /\ matchIdForDisplay' = parseMatchIdFromScan(data)
       /\ (PeerScan(data) /\ decode(variant, data) = NoId) =>
            /\ peer'.page = "scan"
            /\ UNCHANGED <<variant, firebase, keeperVars, storeVars, startVars,
                           minted, displayVars, peer>>
       /\ (PeerScan(data) /\ decode(variant, data) # NoId) =>
            /\ peer'.page \in {"render", "display"}
            /\ peer'.id = decode(variant, data)]_vars

\* a scan was rejected and the scanner is still on
C22_Witness ==
  /\ peer.page = "scan"
  /\ last.op = "PeerScan"
  /\ variant = "web"

\* C23: the keeper mints only while its match has no identifier, neither an
\* active one (matchId) nor a remembered one that startup is still reading
\* from the active-match pointer, and the minted identifier becomes the
\* match's; so one match sees at most one mint.
C23_MintOncePerMatch ==
  [][minted' # minted =>
       /\ matchId = NoId
       /\ startPtr = NoId
       /\ matchId' = generateMatchId(minted')]_vars

\* the role changes of the Expo app and the handler of each
RoleChanges ==
  {<<"keeper", "scan", "OpenScanner">>, <<"scan", "keeper", "CancelScan">>,
   <<"scan", "display", "handleBarCodeScanned">>,
   <<"display", "keeper", "BackToKeeper">>}

\* identifiers the decoder gives for the payloads a scan can carry
ScannedIds == {parseMatchIdFromScan(d) : d \in ScanPayloads} \ {NoId}

\* C24: the role changes only keeper -> scan (open scanner), scan -> keeper
\* (cancel), scan -> display (scan) and display -> keeper (back); in display
\* role matchIdForDisplay is an identifier the decoder returned; no step
\* taken in or into scan or display role mints an identifier.
C24_RoleMachine ==
  [][/\ role' # role => <<role, role', last'.op>> \in RoleChanges
     /\ role' = "display" => matchIdForDisplay' \in ScannedIds
     /\ (role # "keeper" \/ role' # "keeper") => minted' = minted]_vars

\* the device minted an identifier as keeper and now displays a scanned one
C24_Witness ==
  /\ role = "display"
  /\ minted = 1
  /\ matchIdForDisplay \in ScannedIds

\* C25: "start new match" leaves the keeper without identifier, the
\* active-match pointer removed, every field at its default and the records
\* of the stores as they were; afterwards the keeper is bound to an
\* identifier again only by a share action that mints a fresh one (or, at
\* startup, by resuming the identifier the pointer holds), so the record of
\* the old identifier is not written again.
C25_StartNewMatch ==
  [][/\ last'.op = "StartNewMatch" =>
          /\ matchId' = NoId
          /\ pointer' = NoId
          /\ state' = InitialState(variant)
          /\ records' = records
          /\ remote' = remote
     /\ (matchId' # matchId /\ matchId' # NoId) =>
          \/ /\ last'.op = "openQrModal"
             /\ minted' = minted + 1
             /\ matchId' = generateMatchId(minted')
             /\ matchId' \notin DOMAIN records
          \/ /\ last'.op = "StartupPointer"
             /\ matchId' = pointer]_vars

\* the completion of the keeper's two startup reads, which can fall into
\* display role
StartupCallbacks == {"StartupPointer", "StartupLoaded"}

\* what the second endpoint does as a display
PeerDisplayOps ==
  {"PeerOpen", "PeerEffects", "StorageDeliver", "PeerScan", "PeerRemoteDeliver",
   "PeerToggleMirror", "PeerClose"}

\* C26: no step of a display writes a record of the local or the remote
\* store or changes the keeper's fields or identifier: every step the device
\* takes in display role (an update arriving, the mirror button, going back),
\* the pending startup reads of its keeper apart, and every step of the
\* second endpoint's display.
C26_DisplaysReadOnly ==
  [][((role = "display" /\ last'.op \notin StartupCallbacks)
        \/ last'.op \in PeerDisplayOps) =>
       /\ records' = records
       /\ remote' = remote
       /\ pointer' = pointer
       /\ state' = state
       /\ matchId' = matchId]_vars

\* a mirrored display that received a state of the keeper
C26_Witness ==
  /\ role = "display"
  /\ mirrored
  /\ last.op = "LoadResolve"
  /\ displayState # EMPTY_STATE

\* name1, name2, score1, score2, set1, set2, serverAtStart, currentServer
EightFields == {FieldOrder[i] : i \in DOMAIN FieldOrder}

\* C27: every record the keeper writes, to the local store or to the remote
\* store, is an object with all eight fields whose values are those of the
\* keeper's state at that write.
C27_WholeRecordWritten ==
  [][/\ \A id \in DOMAIN records' :
          getItem(records, id) # records'[id] =>
            LET v == JSON_parse(records'[id].text)
            IN /\ IsObj(v)
               /\ DOMAIN v.obj = EightFields
               /\ v = ToJs(state')
     /\ \A id \in DOMAIN remote' :
          getItem(remote, id) # remote'[id] =>
            /\ IsObj(remote'[id])
            /\ DOMAIN remote'[id].obj = EightFields
            /\ remote'[id] = ToJs(state')]_vars

\* the keeper's handlers and startup steps, which run the persist effect
KeeperOps ==
  {"Mount", "StartupPointer", "StartupLoaded", "ScoreInc", "openQrModal",
   "StartNewMatch"}

\* C28: a local-store read or write that fails is swallowed: no error
\* surfaces (no unhandled rejection, no unmounted tree), and the keeper step
\* during which the store fails leaves the store as it was.
C28_LocalFailuresSwallowed ==
  [][/\ uiError' = "none"
     /\ ("local" \in faults /\ last'.op \in KeeperOps) =>
          pointer' = pointer /\ records' = records]_vars

\* C29: publishing is fire-and-forget.  With the remote store disabled or
\* failing, a keeper step raises no error and writes the local record of
\* its state as it does otherwise, leaving the remote store alone; with the
\* remote store enabled and working (again), the step publishes the state.
C29_PublishFireAndForget ==
  [][(last'.op \in KeeperOps /\ "local" \notin faults) =>
       /\ uiError' = uiError
       /\ (~firebase \/ "remote" \in faults) => remote' = remote
       /\ records' # records =>
            /\ records'[matchId'] = saveText(state')
            /\ pointer' = matchId'
            /\ (firebase /\ "remote" \notin faults) =>
                 getItem(remote', matchId') = ToJs(state')]_vars

\* the keeper scored while the remote store failed: the local record holds
\* the new state, the remote record an older one, no error surfaced
C29_Witness ==
  /\ firebase
  /\ "remote" \in faults
  /\ last.op = "ScoreInc"
  /\ uiError = "none"
  /\ getItem(records, matchId) = saveText(state)
  /\ getItem(remote, matchId) \notin {Absent, ToJs(state)}

\* C30: a device restarted while it displayed match M comes back to display
\* role for M by its startup alone (nothing but the startup effect is
\* required to run after the restart).
C30_DisplayResumes ==
  \A m \in ScannedIds :
    (last.op = "Restart" /\ last.followed = m)
      ~> (role = "display" /\ matchIdForDisplay = m)

\* ---------------------------------------------------------------- screens
\* const hasNoData = !s.name1 && !s.name2 && s.score1 === 0 &&
\*   s.score2 === 0 && s.set1 === 0 && s.set2 === 0
\* (the web display compares the names with '')
hasNoData(s) ==
  /\ s.name1 = ""
  /\ s.name2 = ""
  /\ s.score1 = 0
  /\ s.score2 = 0
  /\ s.set1 = 0
  /\ s.set2 = 0

\* the state a display screen of the Expo or web app renders: this device's
\* (Expo) and the other endpoint's
RenderedStates ==
  (IF role = "display" THEN {displayState} ELSE {})
    \cup (IF variant # "legacy" /\ peer.page \in {"render", "display"}
          THEN {Plain(peer.state)} ELSE {})

\* C31: the "waiting for data" placeholder is shown exactly when all eight
\* fields of the rendered state are at their defaults.
C31_WaitingIffDefault ==
  \A s \in RenderedStates : hasNoData(s) <=> s = EMPTY_STATE

\* name texts with blanks around them, and String.prototype.trim on the
\* name texts of the model
PaddedNames == {" ", " Ana "}
trim(n) == IF n = " " THEN "" ELSE IF n = " Ana " THEN "Ana" ELSE n

\* const p1 = s.name1.trim() || 'Spelare 1'
PlayerLabel(s, p) ==
  IF trim(s[NameF(p)]) = ""
  THEN IF p = 1 THEN "Spelare 1" ELSE "Spelare 2"
  ELSE trim(s[NameF(p)])

\* mutant: the serving side is taken from the unmirrored board
projectServingUnmirrored(s, m) ==
  LET leftServes == s.currentServer = 1
  IN [leftName |-> IF m THEN PlayerLabel(s, 2) ELSE PlayerLabel(s, 1),
      rightName |-> IF m THEN PlayerLabel(s, 1) ELSE PlayerLabel(s, 2),
      leftScore |-> IF m THEN s.score2 ELSE s.score1,
      rightScore |-> IF m THEN s.score1 ELSE s.score2,
      leftSet |-> IF m THEN s.set2 ELSE s.set1,
      rightSet |-> IF m THEN s.set1 ELSE s.set2,
      leftServes |-> leftServes,
      servingName |-> IF leftServes
                      THEN IF m THEN PlayerLabel(s, 2) ELSE PlayerLabel(s, 1)
                      ELSE IF m THEN PlayerLabel(s, 1) ELSE PlayerLabel(s, 2)]

\* what the display screen derives from the state it renders:
\* leftName = mirrored ? p2 : p1 ... and
\* servingName = s.currentServer === (mirrored ? 2 : 1) ? leftName : rightName
project(s, m) ==
  LET leftServes == s.currentServer = (IF m THEN 2 ELSE 1)
  IN [leftName |-> IF m THEN PlayerLabel(s, 2) ELSE PlayerLabel(s, 1),
      rightName |-> IF m THEN PlayerLabel(s, 1) ELSE PlayerLabel(s, 2),
      leftScore |-> IF m THEN s.score2 ELSE s.score1,
      rightScore |-> IF m THEN s.score1 ELSE s.score2,
      leftSet |-> IF m THEN s.set2 ELSE s.set1,
      rightSet |-> IF m THEN s.set1 ELSE s.set2,
      leftServes |-> leftServes,
      servingName |-> IF leftServes
                      THEN IF m THEN PlayerLabel(s, 2) ELSE PlayerLabel(s, 1)
                      ELSE IF m THEN PlayerLabel(s, 1) ELSE PlayerLabel(s, 2)]

\* states a display can be handed, names with blanks around them included
RenderInputs ==
  {[op |-> "input", f |-> "project", s |-> [st EXCEPT !.name1 = n],
    mirrored |-> m] :
     st \in WellFormedStates("expo"), n \in Names \cup PaddedNames,
     m \in BOOLEAN}

\* one render of the display screen, and the render after the mirror button
\* (setMirrored((m) => !m)) was pressed
CallProject ==
  /\ IsInput("project")
  /\ variant # "legacy"
  /\ probe' = [op |-> "project", s |-> probe.s, mirrored |-> probe.mirrored,
               out |-> project(probe.s, probe.mirrored),
               toggled |-> project(probe.s, ~probe.mirrored)]
  /\ UNCHANGED appVars

InitScreens == InitApp /\ pointer = NoId /\ probe \in RenderInputs

NextScreens ==
  \/ CallProject

SpecScreens == InitScreens /\ [][NextScreens]_vars

\* what the board shows for player p, and what a projection shows on a side
Shown(s, p) ==
  [name |-> PlayerLabel(s, p), score |-> s[ScoreF(p)], set |-> s[SetF(p)]]
LeftOf(o) == [name |-> o.leftName, score |-> o.leftScore, set |-> o.leftSet]
RightOf(o) ==
  [name |-> o.rightName, score |-> o.rightScore, set |-> o.rightSet]

\* C32: the projection is a pure swap.  Unmirrored, the left side shows
\* player 1 and the right side player 2; mirrored, they are exchanged; the
\* side that serves is the side player currentServer is shown on, and the
\* name shown as serving is the name on that side; pressing the mirror
\* button exchanges the two sides (so that pressing it twice gives the
\* original assignment); the call changes no variable of the app.
C32_ProjectionIsSwap ==
  [][probe'.op = "project" =>
       LET s == probe'.s
           m == probe'.mirrored
           o == probe'.out
           t == probe'.toggled
           l == IF m THEN 2 ELSE 1
       IN /\ LeftOf(o) = Shown(s, l)
          /\ RightOf(o) = Shown(s, Other(l))
          /\ o.leftServes <=> s.currentServer = l
          /\ o.servingName = PlayerLabel(s, s.currentServer)
          /\ LeftOf(t) = RightOf(o)
          /\ RightOf(t) = LeftOf(o)
          /\ t.leftServes <=> ~o.leftServes
          /\ t.servingName = o.servingName
          /\ s = probe.s
          /\ UNCHANGED appVars]_vars

\* a mirrored board rendered with player 2 serving from the left side
C32_Witness ==
  /\ probe.op = "project"
  /\ probe.mirrored
  /\ probe.s.currentServer = 2
  /\ probe.out.leftServes
  /\ probe.out.leftName = "Ana"
  /\ probe.s.name1 = " "
  /\ probe.out.rightName = "Spelare 1"

\* ---------------------------------------------------------------- scanner
\* The scan screens with their camera.  Expo app: the screen of role 'scan',
\* where <CameraView> holds the camera session while it is mounted.  Web
\* apps: DisplayScanConnect in a tab at ?display=1, where an Html5Qrcode
\* object holds it.  Of the library the model takes that start() rejects
\* when the permission is denied or the camera cannot be started, that
\* stop() ends the session of a running scanner, and that stop() of a scanner
\* that is not running (start pending, start failed, stopped before) rejects
\* and leaves a pending start alone: the rejection the code's
\* .catch(() => {}) after every stop() is there for.
Permissions == {"undetermined", "granted", "denied"}

\* what a permission request gives: the user answers the prompt once, a
\* denied permission stays denied
Answers(permission) ==
  IF permission = "undetermined" THEN {"granted", "denied"} ELSE {permission}

ScannerFrame ==
  <<faults, probe, peer, variant, firebase, keeperVars, storeVars, startVars,
    minted, displayVars>>

\* the permission is changed in the settings of the device or the browser
\* while no scan screen is open
SetPermission(p) ==
  /\ role # "scan"
  /\ scanner.page = "closed"
  /\ p # scanner.permission
  /\ scanner' = [scanner EXCEPT !.permission = p]
  /\ last' = [op |-> "SetPermission", p |-> 0]
  /\ UNCHANGED <<uiError, ScannerFrame>>

\* "Tillåt kamera" on the permission prompt of the Expo scan screen; granted,
\* the screen renders <CameraView>
requestPermission ==
  /\ role = "scan"
  /\ scanner.permission # "granted"
  /\ \E p \in Answers(scanner.permission) :
       scanner' = [scanner EXCEPT !.permission = p,
                                  !.camera = CameraStarts(p)]
  /\ last' = [op |-> "requestPermission", p |-> 0]
  /\ UNCHANGED <<uiError, ScannerFrame>>

\* a tab is opened at ?display=1: App renders <DisplayScanConnect />
ConnectOpen ==
  /\ variant # "expo"
  /\ scanner.page = "closed"
  /\ scanner' = [scanner EXCEPT !.page = "connect"]
  /\ last' = [op |-> "ConnectOpen", p |-> 0]
  /\ UNCHANGED <<uiError, ScannerFrame>>

\* "Skanna QR för att koppla till match": setScanning(true), and the effect
\* then runs setError(null), scannerRef.current = new Html5Qrcode(...) and
\* scanner.start(...).  Pressed only while no start of an abandoned scanner
\* is pending or running.
ScanEffect ==
  /\ scanner.page = "connect"
  /\ ~scanner.scanning
  /\ scanner.leaked = "none"
  /\ scanner' = [scanner EXCEPT !.scanning = TRUE, !.error = FALSE,
                                !.ref = TRUE, !.start = "pending"]
  /\ last' = [op |-> "ScanEffect", p |-> 0]
  /\ UNCHANGED <<uiError, ScannerFrame>>

\* the promise of scanner.start(...) settles while the component scans.
\* Resolved: the camera runs.  Rejected: .catch((err) => { setError(...);
\* setScanning(false); scannerRef.current = null }), and the cleanup of the
\* effect (scanner.stop().catch(() => {})) finds nothing to stop.
StartSettles ==
  /\ scanner.scanning
  /\ scanner.start = "pending"
  /\ \E p \in Answers(scanner.permission) :
       IF CameraStarts(p)
       THEN scanner' = [scanner EXCEPT !.permission = p, !.start = "running",
                                       !.camera = TRUE]
       ELSE scanner' = [scanner EXCEPT !.permission = p, !.error = TRUE,
                                       !.scanning = FALSE, !.ref = FALSE,
                                       !.start = "none"]
  /\ last' = [op |-> "StartSettles", p |-> 0]
  /\ UNCHANGED <<uiError, ScannerFrame>>

\* handleCancel ("Avbryt"): if (scannerRef.current) { stop().catch(...);
\* scannerRef.current = null }; setScanning(false); setError(null); then the
\* cleanup of the effect calls stop() once more.  A running scanner is
\* stopped; a scanner whose start is pending is not, and is abandoned.
handleCancel ==
  /\ scanner.page = "connect"
  /\ scanner.scanning
  /\ scanner' = [scanner EXCEPT
                   !.scanning = FALSE, !.error = FALSE, !.ref = FALSE,
                   !.start = "none",
                   !.camera = scanner.leaked = "running",
                   !.leaked = IF scanner.start = "pending" THEN "pending"
                              ELSE @]
  /\ last' = [op |-> "handleCancel", p |-> 0]
  /\ UNCHANGED <<uiError, ScannerFrame>>

\* the promise of the start() of an abandoned scanner settles: resolved, its
\* camera runs; rejected, its catch handler runs setError, setScanning(false)
\* and scannerRef.current = null
LeakedStartSettles ==
  /\ scanner.leaked = "pending"
  /\ \E p \in Answers(scanner.permission) :
       IF CameraStarts(p)
       THEN scanner' = [scanner EXCEPT !.permission = p,
                                       !.leaked = "running", !.camera = TRUE]
       ELSE scanner' = [scanner EXCEPT !.permission = p, !.leaked = "none",
                                       !.error = TRUE]
  /\ last' = [op |-> "LeakedStartSettles", p |-> 0]
  /\ UNCHANGED <<uiError, ScannerFrame>>

\* the frame callback of the running scanner: const matchId =
\* getMatchIdFromUrl(decodedText); if (matchId) scanner.stop().then(() => {
\* ...; window.location.href = display URL }): the camera is stopped and the
\* tab leaves the page for the display of the match
qrCodeSuccessCallback(data) ==
  /\ scanner.page = "connect"
  /\ scanner.scanning
  /\ scanner.start = "running"
  /\ peer.page = "closed"
  /\ LET id == getMatchIdFromUrl(data)
     IN IF id # NoId
        THEN /\ scanner' = [NoScanner EXCEPT
                              !.permission = scanner.permission]
             /\ peer' = FirstRender(Navigate(id))
        ELSE UNCHANGED <<scanner, peer>>
  /\ last' = [op |-> "qrCodeSuccessCallback", p |-> 0]
  /\ UNCHANGED <<faultVars, probe, variant, firebase, keeperVars, storeVars,
                 startVars, minted, displayVars>>

\* the tab is closed or reloaded: the document and its camera sessions go
ConnectLeave ==
  /\ scanner.page = "connect"
  /\ scanner' = [NoScanner EXCEPT !.permission = scanner.permission]
  /\ last' = [op |-> "ConnectLeave", p |-> 0]
  /\ UNCHANGED <<uiError, ScannerFrame>>

\* the scan screens, while the permission changes and the camera fails and
\* recovers
NextScanner ==
  \/ Mount
  \/ StartupPointer
  \/ OpenScanner
  \/ CancelScan
  \/ requestPermission
  \/ \E data \in ScanPayloads : handleBarCodeScanned(data)
  \/ BackToKeeper
  \/ \E p \in Permissions : SetPermission(p)
  \/ Fault("camera")
  \/ ConnectOpen
  \/ ScanEffect
  \/ StartSettles
  \/ handleCancel
  \/ LeakedStartSettles
  \/ \E data \in ScanPayloads : qrCodeSuccessCallback(data)
  \/ PeerClose
  \/ ConnectLeave

SpecScanner == Init /\ [][NextScanner]_vars

\* the scan screen of the Expo app renders the text 'Kamera behövs för att
\* skanna QR-kod' with "Tillåt kamera" and "Tillbaka" while
\* !permission?.granted, and <CameraView> with "Avbryt" otherwise
PermissionPromptShown == role = "scan" /\ scanner.permission # "granted"

\* DisplayScanConnect renders {error && <p>{error}</p>} inside the branch it
\* renders while scanning
StartErrorShown ==
  scanner.page = "connect" /\ scanner.scanning /\ scanner.error

\* C33: a camera failure is surfaced.  On the Expo scan screen without a
\* camera session the permission prompt (with its way back) is shown; in
\* the web apps, while the error of a failed start is set, its message is
\* on the screen.
C33_CameraFailureSurfaced ==
  /\ (variant = "expo" /\ role = "scan" /\ ~scanner.camera)
       => PermissionPromptShown
  /\ (variant # "expo" /\ scanner.page = "connect" /\ scanner.error)
       => StartErrorShown

\* C34: no camera session is active on an endpoint that does not scan: not
\* after a cancel, after a decoded match code, or after the scan screen is
\* gone, whenever the cancel or the teardown came.
C34_NoCameraAfterTeardown ==
  IF variant = "expo"
  THEN role # "scan" => ~scanner.camera
  ELSE ~scanner.scanning => ~scanner.camera

\* C35: saveMatchState writes under one key, which the three apps derive
\* from the identifier in the same way, which differs from the key of any
\* other identifier and from the key of the active-match pointer; saving the
\* same state a second time leaves the store as the first save left it.
C35_KeyOfIdentifier ==
  probe.op = "save" =>
    /\ \A v \in Variants : probe.key[v] = probe.key[variant]
    /\ DOMAIN probe.once = {probe.key[variant]}
    /\ probe.id # probe.other => probe.otherKey # probe.key[variant]
    /\ probe.key[variant] # MATCH_ID_KEY
    /\ probe.twice = probe.once

\* a save under the identifier that reads like the tail of the pointer key,
\* beside a minted one
C35_Witness ==
  /\ probe.op = "save"
  /\ probe.id = PointerLikeId
  /\ probe.other = RememberedId
  /\ probe.once[probe.key[variant]] = saveText(PreviousState(variant))

\* the identifier the modal's code is made from: qrModalMatchId (Expo),
\* qrModalMatchId ?? matchId (web), matchId (legacy)
QrEncodedId ==
  IF variant = "legacy" THEN matchId
  ELSE IF variant = "web" /\ qrModalMatchId = NoId THEN matchId
  ELSE qrModalMatchId

\* C36: while the share-QR modal is open, its code encodes the identifier
\* the keeper's writes are stored and published under.
C36_QrShowsActiveMatch == qrModalVisible => QrEncodedId = matchId

\* C37: the Expo loader, the web loader and parseState give the same result
\* for every decoded payload: the same MatchState, or all of them none.
C37_NormalizersAgree ==
  probe.op = "normalize" =>
    /\ probe.expo = probe.web
    /\ probe.web = probe.received

\* C38: "Byt sida" in the Expo and the web app exchanges the names and the
\* set counts, clears both scores and hands serverAtStart and currentServer
\* to the other player; it changes no other field, not the identifier and
\* not the role; a second "Byt sida" brings names, set counts and both
\* server fields back.
C38_SwapSides ==
  [][(last'.op = "handleSwap" /\ variant # "legacy") =>
       /\ state' = [name1 |-> state.name2, name2 |-> state.name1,
                    score1 |-> 0, score2 |-> 0,
                    set1 |-> state.set2, set2 |-> state.set1,
                    serverAtStart |-> Other(state.serverAtStart),
                    currentServer |-> Other(state.currentServer)]
       /\ Swap(variant, state') =
            [state EXCEPT !.score1 = 0, !.score2 = 0]
       /\ UNCHANGED <<matchId, role, qrModalVisible, qrModalMatchId>>]_vars

\* sides were swapped with a name, a set and a point on the board, player 2
\* serving
C38_Witness ==
  /\ last.op = "handleSwap"
  /\ variant # "legacy"
  /\ state.name2 = "Ana"
  /\ state.name1 = ""
  /\ state.set2 = 1
  /\ state.set1 = 0
  /\ state.serverAtStart = 2
  /\ state.currentServer = 1

\* the fields a keeper edit of side p may change
EditFrame(op, p) ==
  IF op \in {"ScoreInc", "ScoreDec"} THEN {ScoreF(p), "currentServer"}
  ELSE IF op \in {"SetInc", "SetDec"} THEN {SetF(p)}
  ELSE {NameF(p)}

\* C39: "+" and "-" of a score of side p change only that score and
\* currentServer, "+" and "-" of a set only that set count, a name edit only
\* that name; none of them changes serverAtStart, the other side's fields,
\* the match identifier or the role.
C39_EditFrames ==
  [][last'.op \in {"ScoreInc", "ScoreDec", "SetInc", "SetDec", "NameChange"}
       => /\ \A f \in DOMAIN state \ EditFrame(last'.op, last'.p) :
               state'[f] = state[f]
          /\ state'.serverAtStart = state.serverAtStart
          /\ UNCHANGED <<matchId, role>>]_vars

\* a point of side 2 was taken back on a board with a name, a set and
\* player 2 serving from the start: only score2 and currentServer moved
C39_Witness ==
  /\ last.op = "ScoreDec"
  /\ last.p = 2
  /\ state.score2 = 1
  /\ state.score1 = 1
  /\ state.name1 = "Ana"
  /\ state.set1 = 1
  /\ state.serverAtStart = 2
  /\ variant # "legacy"
  /\ state.currentServer = 1

\* the serve indicators of the legacy display for a state and a mirror flag:
\* serverAtStart = state.serverAtStart === 2 ? 2 : 1;
\* const currentServer = getCurrentServer(state.score1, state.score2,
\* serverAtStart); leftServes = currentServer === (mirrored ? 2 : 1);
\* rightServes = currentServer === (mirrored ? 1 : 2)
ServeIndicators(s, m) ==
  LET serverAtStart == IF s.serverAtStart = 2 THEN 2 ELSE 1
      currentServer == getCurrentServer(s.score1, s.score2, serverAtStart)
  IN [leftServes |-> currentServer = (IF m THEN 2 ELSE 1),
      rightServes |-> currentServer = (IF m THEN 1 ELSE 2)]

\* C40: for the states the legacy keeper writes, getCurrentServer is
\* serverAtStart at an even total (so at 0-0) and the other player at an odd
\* total, it changes with every point scored, and the display marks exactly
\* one side as serving, mirrored or not.
C40_LegacyServer ==
  [][variant = "legacy" =>
       LET now == getCurrentServer(state'.score1, state'.score2,
                                   state'.serverAtStart)
           before == getCurrentServer(state.score1, state.score2,
                                      state.serverAtStart)
       IN /\ now = IF Total(state') % 2 = 0 THEN state'.serverAtStart
                   ELSE Other(state'.serverAtStart)
          /\ Total(state') = 0 => now = state'.serverAtStart
          /\ last'.op = "ScoreInc" => now = Other(before)
          /\ \A m \in BOOLEAN :
               ServeIndicators(state', m).leftServes
                 # ServeIndicators(state', m).rightServes]_vars

\* the third point of a match player 2 began to serve: player 1 serves
C40_Witness ==
  /\ variant = "legacy"
  /\ last.op = "ScoreInc"
  /\ Total(state) = 3
  /\ state.serverAtStart = 2
  /\ ServeIndicators(state, TRUE).rightServes
====
